---- MODULE Spec2Model ----
(***************************************************************************)
(* Model of the field-data-collection app: the region -> hospital lookup   *)
(* with cache and AbortController (Form1Screen, Form2Screen), the detail   *)
(* screen save with image uploads (CardInfo) and the save-draft / submit   *)
(* handlers of the form screens.                                           *)
(*                                                                         *)
(* JavaScript values are written as strings: "undefined", "null", "NaN",   *)
(* numbers as their digits ("0", "7"), the empty string as "", a string    *)
(* holding digits in single quotes ("'7'"), any other string as itself.    *)
(*                                                                         *)
(* The JS event loop is modelled as it runs: one action is one task (a UI  *)
(* event handler up to its first await, or the continuation of a settled   *)
(* promise). The continuation of a request rejected by abort() is a        *)
(* microtask: it runs before any other task (MicrotaskPending).            *)
(***************************************************************************)
EXTENDS Integers, Sequences, FiniteSets, TLC

VARIABLES
  form,          \* the mounted screen: "Form1" .. "Form4" or "CardInfo";
                 \* once a render of the screen has thrown, "RenderError"
                 \* (screen unmounted, the runtime goes on) or "AppEnded"
  region,        \* useState region ('' until a region is selected)
  error,         \* useState error ("null" or a message)
  hospitals,     \* useState hospitals: the list handed to SearchBar
  loading,       \* useState loading
  cache,         \* cacheRef.current: Map key -> normalized list
  controllerRef, \* controllerRef.current: 0 (null) or the id of a request
  reqs,          \* every axios.get issued, in order: its controller and outcome
  selLog,        \* every onSelectRegion call, in order
  doneOrder,     \* ids of the requests whose continuation has run, in order
  data,          \* CardInfo: the record passed in (props.data)
  local,         \* CardInfo: useState local, the editable copy
  saving,        \* CardInfo: useState saving
  savePc,        \* CardInfo: where handleSave is: "idle", "uploading", "patching"
  saveObj,       \* CardInfo: the `local` handleSave was called with
  uploads,       \* CardInfo: the upload promises of the current handleSave
  patch,         \* CardInfo: body of the PATCH the current handleSave sent, or <<>>
  downloads,     \* CardInfo: where each unfinished handleDownload is
  lastAlert,     \* title of the last Alert.alert / alert shown
  fields,        \* form screens: the useState value of every input of the form
  selected,      \* Form1: useState selected, the ticked visit purposes in order
  page,          \* Form3, Form4: useState page
  env,           \* API_URL of the build and the user_id held by AsyncStorage
  calls,         \* every submitForm / handleSubmit invocation, in order
  lastTap,       \* the control the user acted on last ("none" before any)
  prodExist,     \* Form4: useState prodExist
  serialReqs,    \* Form4: every fetch issued by onSerialBlur, in order
  httpReqs,      \* backend: every request of the form routes received, in order
  rows,          \* backend: the rows of the form tables, in order of insertion
  products       \* backend: the rows of table products, in order

vars ==
  <<form, region, error, hospitals, loading, cache, controllerRef, reqs,
    selLog, doneOrder, data, local, saving, savePc, saveObj, uploads, patch,
    downloads, lastAlert, fields, selected, page, env, calls, lastTap, prodExist,
    serialReqs, httpReqs, rows, products>>

regionVars ==
  <<form, region, error, hospitals, loading, cache, controllerRef, reqs,
    selLog, doneOrder>>

cardVars ==
  <<data, local, saving, savePc, saveObj, uploads, patch, downloads, lastAlert>>

backendVars ==
  <<httpReqs, rows, products>>

formVars ==
  <<fields, selected, page, env, calls, lastTap, prodExist, serialReqs,
    backendVars>>

cardStateVars ==
  <<data, local, saving, savePc, saveObj, uploads, patch, downloads>>

(* ------------------------------ bounds --------------------------------- *)
MaxSelects ==
  4
NumRegions ==
  2

(* --------------------------- program data ------------------------------ *)
RegionValues ==
  <<"jakarta", "banten", "jawa_barat", "jawa_tengah", "jawa_timur",
    "yogyakarta", "sumatera", "kalimantan", "sulawesi", "ntt", "ntb", "bali">>

Regions ==
  {RegionValues[i] : i \in 1..NumRegions}

(* ------------------------- JavaScript helpers -------------------------- *)
Truthy(v) ==
  v \notin {"undefined", "null", "", "0", "NaN"}

ToNumber(v) ==
  CASE v = "undefined" -> "NaN"
    [] v = "null" -> "0"
    [] v = "" -> "0"
    [] v = "'7'" -> "7"
    [] v = "'0'" -> "0"
    [] v \in {"0", "7", "8", "9"} -> v
    [] OTHER -> "NaN"

OrEmpty(v) ==
  IF Truthy(v) THEN v ELSE ""

ToLowerCase(s) ==
  CASE s = "Jakarta" -> "jakarta"
    [] s = "Banten" -> "banten"
    [] s = "Jawa Barat" -> "jawa barat"
    [] OTHER -> s

(* ---------------------- hospital normalization ------------------------- *)
NormalizeHospital1(h) ==
  [hospital_id |-> ToNumber(h.hospital_id),
   region      |-> OrEmpty(h.region),
   name        |-> OrEmpty(h.name),
   street      |-> OrEmpty(h.street),
   latitude    |-> IF h.latitude \notin {"null", "undefined"} /\ h.latitude # ""
                   THEN ToNumber(h.latitude) ELSE "null",
   longitude   |-> IF h.longitude \notin {"null", "undefined"} /\ h.longitude # ""
                   THEN ToNumber(h.longitude) ELSE "null"]

NormalizeHospital2(h) ==
  [hospital_id |-> ToNumber(h.hospital_id),
   region      |-> OrEmpty(h.region),
   name        |-> OrEmpty(h.name),
   street      |-> OrEmpty(h.street),
   latitude    |-> IF Truthy(h.latitude) THEN ToNumber(h.latitude) ELSE "null",
   longitude   |-> IF Truthy(h.longitude) THEN ToNumber(h.longitude) ELSE "null"]

NormalizeList(raw) ==
  [i \in DOMAIN raw |->
     IF form = "Form1" THEN NormalizeHospital1(raw[i]) ELSE NormalizeHospital2(raw[i])]

(* What GET /api/forms/hospital/{region} can answer for a region: the rows *)
(* of that region, complete or with fields missing.                        *)
RawHospital(r, id, lat) ==
  [hospital_id |-> id, region |-> r, name |-> "RS_" \o r, street |-> "undefined",
   latitude |-> lat, longitude |-> "8"]

RawResponses(r) ==
  { <<RawHospital(r, "7", "0")>>,
    <<RawHospital(r, "8", "'7'"), RawHospital(r, "undefined", "null")>> }

(* A rejected request: err.response.data.message is present or not.        *)
ErrorMessages ==
  {"undefined", "Server error fetching hospitals"}

ErrorText(message) ==
  IF Truthy(message) THEN message ELSE "Failed to load hospitals"

(* ----------------------------- requests -------------------------------- *)
InFlight(i) ==
  reqs[i].state = "inflight"

MicrotaskPending ==
  \E i \in DOMAIN reqs : InFlight(i) /\ reqs[i].aborted

\* A cache that keeps the last result only.
CacheLastOnly(key, list) ==
  [k \in {key} |-> list]

CacheSet(key, list) ==
  [k \in (DOMAIN cache) \cup {key} |-> IF k = key THEN list ELSE cache[k]]

Abort(rs, ref) ==
  IF ref # 0 THEN [rs EXCEPT ![ref].aborted = TRUE] ELSE rs

NewRequest(selectReg, key) ==
  [selectReg |-> selectReg, key |-> key, aborted |-> FALSE, state |-> "inflight",
   result |-> <<>>]

(* -------------------- CardInfo: data and helpers ----------------------- *)
(* A newly picked image {__new: true, uri, fileName, type} is written as   *)
(* the string "new:" followed by its fileName.                             *)
NewImages ==
  {"new:a.jpg"}

IsNewImage(v) ==
  v \in NewImages

CardKeys ==
  {"id", "form_type", "nama_teknisi", "note_kunjungan", "foto_alat", "bukti_koreksi"}

IsImageKey(k) ==
  k \in {"foto_alat", "bukti_koreksi", "dokumentasi_kunjungan", "selfie"}

ProtectedCols ==
  {"id", "user_id", "form_id", "form_type", "created_at", "updated_at"}

Trim(v) ==
  CASE v = "  " -> ""
    [] v = " x " -> "x"
    [] OTHER -> v

NoPatch ==
  <<>>

CardIdle ==
  /\ data = [k \in CardKeys |-> "null"]
  /\ local = data
  /\ saving = FALSE
  /\ savePc = "idle"
  /\ saveObj = <<>>
  /\ uploads = <<>>
  /\ patch = NoPatch
  /\ downloads = <<>>
  /\ lastAlert = "none"

(* ------------------ form screens: the inputs and their state ----------- *)
\* The useState inputs each screen's submit handler reads.
FormFields(f) ==
  CASE f = "Form1" ->
         {"namaSales", "lokasi", "alamat", "coords", "note", "dokumentasi",
          "status", "other", "users"}
    [] f = "Form2" ->
         {"namaSales", "lokasi", "alamat", "coords", "tujuan", "note",
          "dokumentasi"}
    [] f = "Form3" ->
         {"visitPurpose", "technicianName", "serialNumber", "notes",
          "tgl_aktivitas", "hospital", "lokasi", "tekLain", "prodName",
          "tipeProd", "kuantitas", "merkProd", "beritaAcara", "fotoKegiatan",
          "fotoBa"}
    [] f = "Form4" ->
         {"namaCust", "lokasi", "tgl", "prodName", "productType", "serialNum",
          "kuantitas", "kontakCust", "merkProd", "deskMas", "estimasi",
          "masalah", "koreksi", "Capa", "fotoCapa", "fotoAlat", "fotoKoreksi"}
    [] OTHER -> {}

\* The useState initial value of an input: users is an array of one blank
\* user (written as its length), Form4's kuantitas is null, every other
\* input is ''.
MountValue(f, k) ==
  CASE k = "users" -> "1"
    [] k = "kuantitas" /\ f = "Form4" -> "null"
    [] OTHER -> ""

\* What the input's own control stores once the user has filled it: a
\* DropdownPicker stores item.value, SearchBar's searchbarSelect stores
\* {label, addr}, CameraInput stores the asset, an InputBox stores the text.
FilledValue(f, k) ==
  CASE k = "namaSales" -> "sophia"
    [] k \in {"technicianName", "tekLain"} -> "vario"
    [] k = "lokasi" /\ f \in {"Form1", "Form2"} -> "{label:RS A}"
    [] k = "lokasi" -> "RS A"
    [] k \in {"dokumentasi", "fotoCapa", "fotoAlat", "fotoKoreksi", "fotoKegiatan",
             "fotoBa"} -> "{uri:photo.jpg}"
    [] k = "status" -> "bisa ditemui"
    [] k = "other" -> " Demo "
    [] k = "users" -> "2"
    [] k = "kuantitas" -> "1"
    [] k \in {"tgl", "tgl_aktivitas"} -> "2025-01-31"
    [] k = "hospital" -> "RS_A"
    [] OTHER -> "text"

MountedEnv ==
  [API_URL |-> "http://host:3000/", user_id |-> "5"]

\* The server with no request received and its tables empty.
BackendIdle ==
  /\ httpReqs = <<>>
  /\ rows = <<>>
  /\ products = <<>>

FormIdle ==
  /\ BackendIdle
  /\ fields = [k \in FormFields(form) |-> MountValue(form, k)]
  /\ selected = <<>>
  /\ page = 1
  /\ env = MountedEnv
  /\ calls = <<>>
  /\ lastTap = "none"
  /\ prodExist = FALSE
  /\ serialReqs = <<>>

(* ------------------------------- Init ---------------------------------- *)
Init ==
  /\ form \in {"Form1", "Form2"}
  /\ region = ""
  /\ error = "null"
  /\ hospitals = <<>>
  /\ loading = FALSE
  /\ cache = <<>>
  /\ controllerRef = 0
  /\ reqs = <<>>
  /\ selLog = <<>>
  /\ doneOrder = <<>>
  /\ CardIdle
  /\ FormIdle

(* --------------------- onSelectRegion, up to its await ------------------ *)
OnSelectRegion1(selectReg) ==
  /\ form = "Form1"
  /\ ~MicrotaskPending
  /\ Len(selLog) < MaxSelects
  /\ region' = selectReg
  /\ error' = "null"
  /\ IF selectReg \in DOMAIN cache
     THEN /\ hospitals' = cache[selectReg]
          /\ selLog' = Append(selLog, [reg |-> selectReg, req |-> 0, ignored |-> FALSE])
          /\ UNCHANGED <<loading, controllerRef, reqs>>
     ELSE /\ reqs' = Append(Abort(reqs, controllerRef), NewRequest(selectReg, selectReg))
          /\ controllerRef' = Len(reqs) + 1
          /\ loading' = TRUE
          /\ selLog' = Append(selLog, [reg |-> selectReg, req |-> Len(reqs) + 1,
                                       ignored |-> FALSE])
          /\ UNCHANGED hospitals
  /\ UNCHANGED <<form, cache, doneOrder>>
  /\ UNCHANGED <<cardVars, formVars>>

\* The render that follows the handler's state updates. Form2Screen renders
\* `{loading && <ActivityIndicator .../>}` without importing
\* ActivityIndicator: with loading true the render throws a ReferenceError.
\* What the uncaught error leads to depends on the build: React unmounts the
\* screen and the JavaScript runtime goes on, or the app is ended.
RenderedForm2(isLoading) ==
  IF isLoading THEN {"RenderError", "AppEnded"} ELSE {"Form2"}

OnSelectRegion2(selectReg) ==
  /\ form = "Form2"
  /\ ~MicrotaskPending
  /\ Len(selLog) < MaxSelects
  /\ LET key == ToLowerCase(selectReg) IN
     IF Truthy(region) /\ ToLowerCase(region) = key
     THEN /\ selLog' = Append(selLog, [reg |-> selectReg, req |-> 0, ignored |-> TRUE])
          /\ UNCHANGED <<region, error, hospitals, loading, controllerRef, reqs>>
     ELSE /\ region' = selectReg
          /\ error' = "null"
          /\ IF key \in DOMAIN cache
             THEN /\ hospitals' = cache[key]
                  /\ selLog' = Append(selLog, [reg |-> selectReg, req |-> 0,
                                               ignored |-> FALSE])
                  /\ UNCHANGED <<loading, controllerRef, reqs>>
             ELSE /\ hospitals' = <<>>
                  /\ reqs' = Append(Abort(reqs, controllerRef), NewRequest(selectReg, key))
                  /\ controllerRef' = Len(reqs) + 1
                  /\ loading' = TRUE
                  /\ selLog' = Append(selLog, [reg |-> selectReg, req |-> Len(reqs) + 1,
                                               ignored |-> FALSE])
  /\ form' \in RenderedForm2(loading')
  /\ UNCHANGED <<cache, doneOrder>>
  /\ UNCHANGED <<cardVars, formVars>>

(* ------------- onSelectRegion, after axios.get has settled -------------- *)
\* The continuation runs while the JavaScript runtime does, whether or not
\* the screen is still mounted.
RuntimeAlive ==
  form \in {"Form1", "Form2", "RenderError"}

\* The screen that issued the requests is still mounted.
Mounted ==
  form \in {"Form1", "Form2"}

\* A useState setter called from the continuation: dropped once the screen
\* has been unmounted. The refs (cacheRef, controllerRef) are plain objects
\* and are written either way.
SetState(new, old) ==
  IF Mounted THEN new ELSE old

FetchResolved(i, raw) ==
  /\ RuntimeAlive
  /\ ~MicrotaskPending
  /\ InFlight(i)
  /\ raw \in RawResponses(reqs[i].selectReg)
  /\ LET normalized == NormalizeList(raw) IN
       /\ cache' = CacheSet(reqs[i].key, normalized)
       /\ hospitals' = SetState(normalized, hospitals)
       /\ reqs' = [reqs EXCEPT ![i].state = "ok", ![i].result = normalized]
  /\ loading' = SetState(FALSE, loading)
  /\ controllerRef' = 0
  /\ doneOrder' = Append(doneOrder, i)
  /\ UNCHANGED <<form, region, error, selLog>>
  /\ UNCHANGED <<cardVars, formVars>>

FetchFailed(i, message) ==
  /\ RuntimeAlive
  /\ ~MicrotaskPending
  /\ InFlight(i)
  /\ error' = SetState(ErrorText(message), error)
  /\ hospitals' = SetState(<<>>, hospitals)
  /\ reqs' = [reqs EXCEPT ![i].state = "error"]
  /\ loading' = SetState(FALSE, loading)
  /\ controllerRef' = 0
  /\ doneOrder' = Append(doneOrder, i)
  /\ UNCHANGED <<form, region, cache, selLog>>
  /\ UNCHANGED <<cardVars, formVars>>

\* A continuation that treats a cancelled request as any other failure.
FetchCancelledReported(i) ==
  /\ RuntimeAlive
  /\ InFlight(i)
  /\ reqs[i].aborted
  /\ reqs' = [reqs EXCEPT ![i].state = "cancelled"]
  /\ error' = SetState("Failed to load hospitals", error)
  /\ hospitals' = SetState(<<>>, hospitals)
  /\ loading' = SetState(FALSE, loading)
  /\ controllerRef' = 0
  /\ doneOrder' = Append(doneOrder, i)
  /\ UNCHANGED <<form, region, cache, selLog>>
  /\ UNCHANGED <<cardVars, formVars>>

FetchCancelled(i) ==
  /\ RuntimeAlive
  /\ InFlight(i)
  /\ reqs[i].aborted
  /\ reqs' = [reqs EXCEPT ![i].state = "cancelled"]
  /\ loading' = SetState(FALSE, loading)
  /\ controllerRef' = 0
  /\ doneOrder' = Append(doneOrder, i)
  /\ UNCHANGED <<form, region, error, hospitals, cache, selLog>>
  /\ UNCHANGED <<cardVars, formVars>>

SelectRegion1 ==
  \E r \in Regions : OnSelectRegion1(r)

SelectRegion2 ==
  \E r \in Regions : OnSelectRegion2(r)

Resolve ==
  \E i \in DOMAIN reqs : \E raw \in RawResponses(reqs[i].selectReg) : FetchResolved(i, raw)

Fail ==
  \E i \in DOMAIN reqs : \E m \in ErrorMessages : FetchFailed(i, m)

Cancel ==
  \E i \in DOMAIN reqs : FetchCancelled(i)

Next ==
  \/ SelectRegion1
  \/ SelectRegion2
  \/ Resolve
  \/ Fail
  \/ Cancel

Spec ==
  Init /\ [][Next]_vars

(* ================= CardInfo: handleSave, uploadNewImages ================ *)
NoteValues ==
  {" x ", ""}

TeknisiValues ==
  {"budi", "  "}

UploadReplies ==
  { [filename |-> "srv1.jpg", fileName |-> "undefined", name |-> "undefined"],
    [filename |-> "undefined", fileName |-> "undefined", name |-> "old.jpg"],
    [filename |-> "undefined", fileName |-> "undefined", name |-> "undefined"] }

PatchOutcomes ==
  {"ok", "ok-no-rows", "http-error", "network-error"}

FilenameOf(json) ==
  IF Truthy(json.filename) THEN json.filename
  ELSE IF Truthy(json.fileName) THEN json.fileName
  ELSE json.name

NewImageKeys(obj) ==
  {k \in DOMAIN obj : IsImageKey(k) /\ Truthy(obj[k]) /\ IsNewImage(obj[k])}

StartUploadsOneByOne(obj) ==
  LET keys == NewImageKeys(obj) IN
  [k \in (IF keys = {} THEN {} ELSE {CHOOSE k \in keys : TRUE}) |->
     [state |-> "inflight", filename |-> "undefined"]]

StartUploads(obj) ==
  [k \in NewImageKeys(obj) |-> [state |-> "inflight", filename |-> "undefined"]]

WithUploadedImagesKept(obj, ups) ==
  obj

WithUploadedImages(obj, ups) ==
  [k \in DOMAIN obj |-> IF k \in DOMAIN ups THEN ups[k].filename ELSE obj[k]]

NormalizeForDiff(v) ==
  IF v \in {"null", "undefined"} THEN "null"
  ELSE IF IsNewImage(v) THEN v
  ELSE Trim(v)

Updates(newObj, original) ==
  LET changed == {k \in DOMAIN newObj :
                    /\ k \notin ProtectedCols
                    /\ NormalizeForDiff(newObj[k]) # NormalizeForDiff(original[k])
                    /\ newObj[k] # "undefined"}
  IN [k \in changed |-> newObj[k]]

AllUploaded(ups) ==
  \A k \in DOMAIN ups : ups[k].state = "ok"

(* handleSave from "2) Diff original and new" to its next await: with      *)
(* nothing changed it ends (safeOnSave is the screen's own async no-op, its *)
(* await resumes in the same task); otherwise it waits for                  *)
(* AsyncStorage.getItem('user_id') and no PATCH has been sent yet.          *)
AfterUploads(withUploadedImages) ==
  LET updates == Updates(withUploadedImages, data) IN
  IF DOMAIN updates = {}
  THEN /\ local' = withUploadedImages
       /\ saving' = FALSE
       /\ lastAlert' = "No changes"
       /\ savePc' = "idle"
       /\ patch' = NoPatch
  ELSE /\ patch' = NoPatch
       /\ savePc' = "storage"
       /\ saving' = TRUE
       /\ UNCHANGED <<local, lastAlert>>

CardInit ==
  /\ form = "CardInfo"
  /\ region = ""
  /\ error = "null"
  /\ hospitals = <<>>
  /\ loading = FALSE
  /\ cache = <<>>
  /\ controllerRef = 0
  /\ reqs = <<>>
  /\ selLog = <<>>
  /\ doneOrder = <<>>
  /\ data \in { [k \in CardKeys |->
                   CASE k = "id" -> id
                     [] k = "form_type" -> ft
                     [] k = "nama_teknisi" -> "budi"
                     [] k = "note_kunjungan" -> "x"
                     [] k = "foto_alat" -> foto
                     [] OTHER -> "null"] :
                id \in {"12", "undefined"},
                ft \in {"technician_activity"},
                foto \in {"null", "old.jpg"} }
  /\ local = data
  /\ saving = FALSE
  /\ savePc = "idle"
  /\ saveObj = <<>>
  /\ uploads = <<>>
  /\ patch = NoPatch
  /\ downloads = <<>>
  /\ lastAlert = "none"
  /\ FormIdle

(* ------------------------- the user edits a field ---------------------- *)
PickImage(k, img) ==
  /\ local' = [local EXCEPT ![k] = img]
  /\ UNCHANGED <<data, saving, savePc, saveObj, uploads, patch, lastAlert>>
  /\ UNCHANGED <<regionVars, formVars, downloads>>

RemoveImage(k) ==
  /\ local' = [local EXCEPT ![k] = "null"]
  /\ UNCHANGED <<data, saving, savePc, saveObj, uploads, patch, lastAlert>>
  /\ UNCHANGED <<regionVars, formVars, downloads>>

ChangeText(k, t) ==
  /\ local' = [local EXCEPT ![k] = t]
  /\ UNCHANGED <<data, saving, savePc, saveObj, uploads, patch, lastAlert>>
  /\ UNCHANGED <<regionVars, formVars, downloads>>

(* ------------------- handleSave, up to its first await ----------------- *)
HandleSave ==
  /\ form = "CardInfo"
  /\ ~saving
  /\ savePc = "idle"
  /\ IF ~Truthy(local["id"])
     THEN /\ lastAlert' = "Missing form id."
          /\ saving' = FALSE
          /\ uploads' = <<>>
          /\ patch' = NoPatch
          /\ UNCHANGED <<local, savePc, saveObj>>
     ELSE IF ~Truthy(local["form_type"])
     THEN /\ lastAlert' = "Missing form_type."
          /\ saving' = FALSE
          /\ uploads' = <<>>
          /\ patch' = NoPatch
          /\ UNCHANGED <<local, savePc, saveObj>>
     ELSE IF /\ local["form_type"] = "technician_activity"
             /\ (~Truthy(local["nama_teknisi"]) \/ ~Truthy(Trim(local["nama_teknisi"])))
     THEN /\ lastAlert' = "Nama teknisi is required"
          /\ saving' = FALSE
          /\ uploads' = <<>>
          /\ patch' = NoPatch
          /\ UNCHANGED <<local, savePc, saveObj>>
     ELSE /\ saveObj' = local
          /\ uploads' = StartUploads(local)
          /\ IF DOMAIN uploads' = {}
             THEN AfterUploads(local)
             ELSE /\ saving' = TRUE
                  /\ savePc' = "uploading"
                  /\ patch' = NoPatch
                  /\ UNCHANGED <<local, lastAlert>>
  /\ UNCHANGED data
  /\ UNCHANGED <<regionVars, formVars, downloads>>

(* --------------- one upload settles (fetch POST /uploads) --------------- *)
\* fetch has resolved: a 2xx reply goes on to `await resp.json()`, any other
\* to `await resp.text()`.
UploadResponded(k, ok) ==
  /\ k \in DOMAIN uploads
  /\ uploads[k].state = "inflight"
  /\ uploads' = [uploads EXCEPT ![k].state = IF ok THEN "json" ELSE "text"]
  /\ UNCHANGED <<data, local, saving, savePc, saveObj, patch, lastAlert>>
  /\ UNCHANGED <<regionVars, formVars, downloads>>

\* resp.json() has resolved.
UploadFulfilled(k, json) ==
  /\ k \in DOMAIN uploads
  /\ uploads[k].state = "json"
  /\ uploads' = [uploads EXCEPT ![k] = [state |-> "ok", filename |-> FilenameOf(json)]]
  /\ IF savePc = "uploading" /\ AllUploaded(uploads')
     THEN AfterUploads(WithUploadedImages(saveObj, uploads'))
     ELSE UNCHANGED <<local, saving, savePc, patch, lastAlert>>
  /\ UNCHANGED <<data, saveObj>>
  /\ UNCHANGED <<regionVars, formVars, downloads>>

UploadRejectedIgnored(k) ==
  /\ k \in DOMAIN uploads
  /\ uploads[k].state \in {"inflight", "json", "text"}
  /\ uploads' = [uploads EXCEPT ![k].state = "failed"]
  /\ IF savePc = "uploading"
     THEN AfterUploads(saveObj)
     ELSE UNCHANGED <<local, saving, savePc, patch, lastAlert>>
  /\ UNCHANGED <<data, saveObj>>
  /\ UNCHANGED <<regionVars, formVars, downloads>>

\* The upload promise rejects: fetch rejected, resp.json() rejected, or
\* resp.text() of a non-2xx reply settled and the Error was thrown.
UploadRejected(k) ==
  /\ k \in DOMAIN uploads
  /\ uploads[k].state \in {"inflight", "json", "text"}
  /\ uploads' = [uploads EXCEPT ![k].state = "failed"]
  /\ IF savePc = "uploading"
     THEN /\ lastAlert' = "Upload failed"
          /\ saving' = FALSE
          /\ savePc' = "idle"
          /\ UNCHANGED <<local, patch>>
     ELSE UNCHANGED <<local, saving, savePc, patch, lastAlert>>
  /\ UNCHANGED <<data, saveObj>>
  /\ UNCHANGED <<regionVars, formVars, downloads>>

(* -------- AsyncStorage.getItem('user_id') settles: the PATCH is sent ----- *)
\* A rejected getItem is caught and the fallback user id used: either way
\* the PATCH goes out with the updates computed by the diff.
StorageSettled ==
  /\ savePc = "storage"
  /\ patch' = Updates(WithUploadedImages(saveObj, uploads), data)
  /\ savePc' = "patching"
  /\ UNCHANGED <<data, local, saving, saveObj, uploads, lastAlert>>
  /\ UNCHANGED <<regionVars, formVars, downloads>>

(* ------------------------- the PATCH settles --------------------------- *)
\* fetch has resolved (whatever the status): `await resp.json()` is pending.
PatchResponded ==
  /\ savePc = "patching"
  /\ savePc' = "reading"
  /\ UNCHANGED <<data, local, saving, saveObj, uploads, patch, lastAlert>>
  /\ UNCHANGED <<regionVars, formVars, downloads>>

\* Where handleSave continues for an outcome: a rejected fetch goes to the
\* catch from the fetch itself, every reply after resp.json() has settled.
PatchPcOf(outcome) ==
  IF outcome = "network-error" THEN "patching" ELSE "reading"

\* A handler without the finally block: a failed PATCH leaves the flag set.
PatchSettledNoFinally(outcome) ==
  /\ savePc = PatchPcOf(outcome)
  /\ IF outcome \in {"ok", "ok-no-rows"}
     THEN /\ local' = WithUploadedImages(saveObj, uploads)
          /\ lastAlert' = "Form updated successfully."
          /\ saving' = FALSE
     ELSE /\ lastAlert' = "Save failed"
          /\ UNCHANGED <<local, saving>>
  /\ savePc' = "idle"
  /\ UNCHANGED <<data, saveObj, uploads, patch>>
  /\ UNCHANGED <<regionVars, formVars, downloads>>

PatchSettled(outcome) ==
  /\ savePc = PatchPcOf(outcome)
  /\ IF outcome \in {"ok", "ok-no-rows"}
     THEN /\ local' = WithUploadedImages(saveObj, uploads)
          /\ lastAlert' = "Form updated successfully."
     ELSE /\ lastAlert' = "Save failed"
          /\ UNCHANGED local
  /\ saving' = FALSE
  /\ savePc' = "idle"
  /\ UNCHANGED <<data, saveObj, uploads, patch>>
  /\ UNCHANGED <<regionVars, formVars, downloads>>

(* ------------------------ handleDownload (Export PDF) ------------------- *)
MaxDownloads ==
  1

\* What Print.printToFileAsync comes to: a file, no uri, a rejection.
PrintOutcomes ==
  {"file:///x.pdf", "undefined", "rejected"}

\* What Sharing.isAvailableAsync comes to.
SharingOutcomes ==
  {"true", "false", "rejected"}

Without(seq, d) ==
  [j \in 1..(Len(seq) - 1) |-> IF j < d THEN seq[j] ELSE seq[j + 1]]

\* The Download button (disabled while saving), up to the await of
\* Print.printToFileAsync.
HandleDownload ==
  /\ form = "CardInfo"
  /\ ~saving
  /\ Len(downloads) < MaxDownloads
  /\ downloads' = Append(downloads, "printing")
  /\ UNCHANGED <<data, local, saving, savePc, saveObj, uploads, patch, lastAlert>>
  /\ UNCHANGED <<regionVars, formVars>>

\* printToFileAsync has settled: with a uri the handler goes on to
\* `await Sharing.isAvailableAsync()`, otherwise to its catch.
PrintSettled(d, outcome) ==
  /\ d \in DOMAIN downloads
  /\ downloads[d] = "printing"
  /\ IF outcome \in {"undefined", "rejected"}
     THEN /\ lastAlert' = "Export failed"
          /\ downloads' = Without(downloads, d)
     ELSE /\ downloads' = [downloads EXCEPT ![d] = "checking"]
          /\ UNCHANGED lastAlert
  /\ UNCHANGED <<data, local, saving, savePc, saveObj, uploads, patch>>
  /\ UNCHANGED <<regionVars, formVars>>

\* isAvailableAsync has settled: share the file, or tell where it is.
SharingChecked(d, canShare) ==
  /\ d \in DOMAIN downloads
  /\ downloads[d] = "checking"
  /\ CASE canShare = "true" ->
            /\ downloads' = [downloads EXCEPT ![d] = "sharing"]
            /\ UNCHANGED lastAlert
       [] canShare = "false" ->
            /\ lastAlert' = "Saved"
            /\ downloads' = Without(downloads, d)
       [] OTHER ->
            /\ lastAlert' = "Export failed"
            /\ downloads' = Without(downloads, d)
  /\ UNCHANGED <<data, local, saving, savePc, saveObj, uploads, patch>>
  /\ UNCHANGED <<regionVars, formVars>>

\* Sharing.shareAsync has settled.
ShareSettled(d, shared) ==
  /\ d \in DOMAIN downloads
  /\ downloads[d] = "sharing"
  /\ downloads' = Without(downloads, d)
  /\ lastAlert' = IF shared THEN lastAlert ELSE "Export failed"
  /\ UNCHANGED <<data, local, saving, savePc, saveObj, uploads, patch>>
  /\ UNCHANGED <<regionVars, formVars>>

PrintDone ==
  \E d \in DOMAIN downloads : \E o \in PrintOutcomes : PrintSettled(d, o)

SharingKnown ==
  \E d \in DOMAIN downloads : \E c \in SharingOutcomes : SharingChecked(d, c)

ShareDone ==
  \E d \in DOMAIN downloads : \E shared \in BOOLEAN : ShareSettled(d, shared)

EditImage ==
  \E k \in {"foto_alat", "bukti_koreksi"} : \E img \in NewImages : PickImage(k, img)

ClearImage ==
  \E k \in {"foto_alat", "bukti_koreksi"} : RemoveImage(k)

EditText ==
  \/ \E t \in NoteValues : ChangeText("note_kunjungan", t)
  \/ \E t \in TeknisiValues : ChangeText("nama_teknisi", t)

UploadReplied ==
  \E k \in DOMAIN uploads : \E ok \in BOOLEAN : UploadResponded(k, ok)

UploadOk ==
  \E k \in DOMAIN uploads : \E json \in UploadReplies : UploadFulfilled(k, json)

UploadFails ==
  \E k \in DOMAIN uploads : UploadRejected(k)

PatchDone ==
  \E o \in PatchOutcomes : PatchSettled(o)

CardNext ==
  \/ EditImage
  \/ ClearImage
  \/ EditText
  \/ HandleSave
  \/ UploadReplied
  \/ UploadOk
  \/ UploadFails
  \/ StorageSettled
  \/ PatchResponded
  \/ PatchDone
  \/ HandleDownload
  \/ PrintDone
  \/ SharingKnown
  \/ ShareDone

CardSpec ==
  CardInit /\ [][CardNext]_vars

\* The uploads, the storage read and the PATCH are promises the runtime
\* settles: a handleSave waiting on them is eventually resumed.
CardFairSpec ==
  /\ CardSpec
  /\ WF_vars(UploadReplied \/ UploadOk \/ UploadFails)
  /\ WF_vars(StorageSettled)
  /\ WF_vars(PatchResponded \/ PatchDone)

(* ============ form screens: save-draft and submit handlers ============= *)
MaxCalls ==
  2
MaxEmpty ==
  1

\* v?.value ?? v ?? '' for the values a DropdownPicker stores (plain strings).
ValueOrSelf(v) ==
  IF v \in {"null", "undefined"} THEN "" ELSE v

\* lokasi?.label ?? '': only the object searchbarSelect stores has a label.
LabelOrEmpty(v) ==
  CASE v = "{label:RS A}" -> "RS A"
    [] OTHER -> ""

\* v ?? ''
OrBlank(v) ==
  IF v \in {"null", "undefined"} THEN "" ELSE v

\* imageObj?.uri
HasUri(v) ==
  v = "{uri:photo.jpg}"

\* The part appended for an image: photo.jpg when the asset has a uri.
ImagePart(v) ==
  IF HasUri(v) THEN "photo.jpg" ELSE "absent"

\* f.key === null || f.key === undefined || f.key === '' || f.key === 0
IsMissing(v) ==
  v \in {"null", "undefined", "", "0"}

\* An other-text kept in the case it was typed in.
OtherAsTyped(v) ==
  v

\* other.trim() and other.trim().toLowerCase()
TrimOther(v) ==
  CASE v = " Demo " -> "Demo"
    [] v = " " -> ""
    [] OTHER -> v

LowerOther(v) ==
  CASE v = "Demo" -> "demo"
    [] OTHER -> v

\* Array.prototype.join(',')
RECURSIVE JoinComma(_)
JoinComma(seq) ==
  IF seq = <<>> THEN ""
  ELSE IF Len(seq) = 1 THEN seq[1]
  ELSE seq[1] \o "," \o JoinComma(Tail(seq))

\* JSON.stringify(users ?? []) for an array of n blank users
UsersJson(n) ==
  CASE n = "1" -> "[{}]"
    [] n = "2" -> "[{},{}]"
    [] OTHER -> "[]"

\* What a handler invocation closes over: the state of the render it was
\* called from.
Snapshot ==
  [fields |-> fields, selected |-> selected, region |-> region, env |-> env]

\* allSelected of Form1: the ticked purposes, then the trimmed "other" text.
AllSelected(snap) ==
  IF TrimOther(snap.fields["other"]) # ""
  THEN Append(snap.selected, LowerOther(TrimOther(snap.fields["other"])))
  ELSE snap.selected

NoFormData ==
  <<>>

\* Form1 submitForm: the FormData as it is when axios.post is called.
FormData1(snap) ==
  [user_id |-> snap.env.user_id,
   nama_sales |-> ValueOrSelf(snap.fields["namaSales"]),
   region |-> ValueOrSelf(snap.region),
   nama_lokasi |-> LabelOrEmpty(snap.fields["lokasi"]),
   alamat_lokasi |-> OrBlank(snap.fields["alamat"]),
   koordinat_lokasi |-> OrBlank(snap.fields["coords"]),
   tujuan_kunjungan |-> JoinComma(AllSelected(snap)),
   note_kunjungan |-> OrBlank(snap.fields["note"]),
   users |-> UsersJson(snap.fields["users"]),
   status_kunjungan |-> snap.fields["status"],
   dokumentasi_kunjungan |-> ImagePart(snap.fields["dokumentasi"]),
   status |-> "absent"]

\* Form2 submitForm: status is appended before axios.post.
FormData2(snap, isDraft) ==
  [user_id |-> snap.env.user_id,
   nama_sales |-> ValueOrSelf(snap.fields["namaSales"]),
   region |-> ValueOrSelf(snap.region),
   nama_lokasi |-> LabelOrEmpty(snap.fields["lokasi"]),
   alamat_lokasi |-> snap.fields["alamat"],
   koordinat_lokasi |-> snap.fields["coords"],
   tujuan_kunjungan |-> snap.fields["tujuan"],
   note_kunjungan |-> snap.fields["note"],
   dokumentasi_kunjungan |-> ImagePart(snap.fields["dokumentasi"]),
   status |-> IF isDraft THEN "draft" ELSE "submitted"]

\* Form3 handleSubmit: the FormData as it is when axios.post is called.
FormData3(snap) ==
  [user_id |-> snap.env.user_id,
   tanggal_aktivitas |-> snap.fields["tgl_aktivitas"],
   nama_teknisi |-> ValueOrSelf(snap.fields["technicianName"]),
   nama_lokasi |-> ValueOrSelf(snap.fields["hospital"]),
   alamat_lokasi |-> snap.fields["lokasi"],
   teknisi_lain |-> ValueOrSelf(snap.fields["tekLain"]),
   nama_produk |-> snap.fields["prodName"],
   tipe_produk |-> snap.fields["tipeProd"],
   serial_number |-> snap.fields["serialNumber"],
   kuantitas_unit |-> ValueOrSelf(snap.fields["kuantitas"]),
   merk_produk |-> snap.fields["merkProd"],
   nomor_berita_acara |-> snap.fields["beritaAcara"],
   tujuan_kunjungan |-> snap.fields["visitPurpose"],
   notes |-> snap.fields["notes"],
   selfie_foto_kegiatan |-> ImagePart(snap.fields["fotoKegiatan"]),
   foto_ba_daftar_hadir |-> ImagePart(snap.fields["fotoBa"])]

\* Form4 handleSubmit: requiredFields, in order, as <<key, value, label>>.
RequiredFields4(snap) ==
  << <<"user_id", snap.env.user_id, "User ID">>,
     <<"nama_customer", snap.fields["namaCust"], "Nama Customer">>,
     <<"nama_faskes", LabelOrEmpty(snap.fields["lokasi"]), "Nama Lokasi">>,
     <<"tanggal_pengambilan", snap.fields["tgl"], "Tanggal Pengambilan">>,
     <<"nama_produk", snap.fields["prodName"], "Nama Produk">>,
     <<"tipe_produk", snap.fields["productType"], "Tipe Produk">>,
     <<"serial_number", snap.fields["serialNum"], "Serial Number">>,
     <<"kuantitas_unit", ValueOrSelf(snap.fields["kuantitas"]), "Kuantitas Unit">>,
     <<"kontak_customer", snap.fields["kontakCust"], "Kontak Customer">>,
     <<"merk_produk", snap.fields["merkProd"], "Merk Produk">>,
     <<"deskripsi_masalah", snap.fields["deskMas"], "Deskripsi Masalah">>,
     <<"estimasi_penyelesaian", snap.fields["estimasi"], "Estimasi Penyelesaian">>,
     <<"penyebab_masalah", snap.fields["masalah"], "Penyebab Masalah">>,
     <<"koreksi", snap.fields["koreksi"], "Koreksi">>,
     <<"tindakan_koreksi_capa", snap.fields["Capa"], "Tindakan Koreksi CAPA">> >>

\* Form1 submitForm: requiredFields as <<value, label>>. `selected` is an
\* array and users?.length a number: "[]" and the length stand for them.
RequiredFields1(snap) ==
  << <<ValueOrSelf(snap.fields["namaSales"]), "Nama Sales">>,
     <<ValueOrSelf(snap.region), "Region">>,
     <<LabelOrEmpty(snap.fields["lokasi"]), "Lokasi">>,
     <<OrBlank(snap.fields["alamat"]), "Alamat">>,
     <<OrBlank(snap.fields["coords"]), "Koordinat">>,
     <<"[]", "Tujuan Kunjungan">>,
     <<snap.fields["note"], "Note Kunjungan">>,
     <<snap.fields["dokumentasi"], "Dokumentasi Kunjungan">>,
     <<snap.fields["users"], "Nama dan Jabatan User ">>,
     <<snap.fields["status"], " ">> >>

\* requiredFields.filter(missing).map(f => f.label), in order.
RECURSIVE MissingLabels(_, _)
MissingLabels(req, at) ==
  IF req = <<>> THEN <<>>
  ELSE IF IsMissing(Head(req)[at])
       THEN <<Head(req)[Len(Head(req))]>> \o MissingLabels(Tail(req), at)
       ELSE MissingLabels(Tail(req), at)

\* Form4: FormData built by requiredFields.forEach plus the three images.
FormData4(snap) ==
  LET req == RequiredFields4(snap) IN
  [k \in {req[i][1] : i \in DOMAIN req}
         \cup {"tindakan_koreksi_img", "foto_alat_sebelum_service", "bukti_koreksi"} |->
     CASE k = "tindakan_koreksi_img" -> ImagePart(snap.fields["fotoCapa"])
       [] k = "foto_alat_sebelum_service" -> ImagePart(snap.fields["fotoAlat"])
       [] k = "bukti_koreksi" -> ImagePart(snap.fields["fotoKoreksi"])
       [] OTHER -> OrBlank(req[CHOOSE i \in DOMAIN req : req[i][1] = k][2])]

\* typeof API_URL !== 'string' || !API_URL.trim()
ApiUrlUnusable(url) ==
  url \in {"undefined", "", " "}

EnvValues ==
  { [API_URL |-> u, user_id |-> id] :
      u \in {"http://host:3000/", "undefined"}, id \in {"5", "null"} }

\* The inputs the model lets the user change during a run; the others keep
\* the value they have in the initial state.
EditedFields(f) ==
  CASE f = "Form1" -> {"namaSales"}
    [] f = "Form2" -> {"namaSales", "tujuan"}
    [] f = "Form3" -> {"technicianName", "notes"}
    [] f = "Form4" -> {"kuantitas", "namaCust"}
    [] OTHER -> {}

\* A DropdownPicker can only pick an option; a text input can also be cleared.
EditValues(f, k) ==
  IF k \in {"namaSales", "kuantitas", "technicianName"}
  THEN {FilledValue(f, k)}
  ELSE {FilledValue(f, k), ""}

Options ==
  {"Presentasi", "Kunjungan Rutin"}

NewCall(isDraft) ==
  [isDraft |-> isDraft, snap |-> Snapshot, pc |-> "storage", alerts |-> <<>>,
   missing |-> <<>>, sent |-> NoFormData, formData |-> NoFormData]

\* alert(text): the invocation's own alerts, in order.
Alerted(call, text) ==
  [call EXCEPT !.alerts = Append(@, text)]

\* What the save / submit handlers and the footer never touch.
otherScreens ==
  <<region, error, hospitals, loading, cache, controllerRef, reqs, selLog,
    doneOrder, data, local, saving, savePc, saveObj, uploads, patch,
    downloads, backendVars>>

formFrame ==
  <<otherScreens, prodExist, serialReqs>>

(* ---------- Form1 submitForm({isDraft}), up to its first await ---------- *)
\* A handler that clears the form when validation rejects the attempt.
SubmitForm1Clearing(isDraft) ==
  /\ form = "Form1"
  /\ Len(calls) < MaxCalls
  /\ LET call == NewCall(isDraft)
         nameToSend == ValueOrSelf(fields["namaSales"])
         missing == MissingLabels(RequiredFields1(Snapshot), 1)
     IN IF isDraft /\ ~Truthy(nameToSend)
        THEN /\ calls' = Append(calls,
                  [Alerted(call, "Nama Sales is required to save a draft")
                     EXCEPT !.pc = "returned"])
             /\ lastAlert' = "Nama Sales is required to save a draft"
             /\ fields' = [k \in DOMAIN fields |-> MountValue(form, k)]
        ELSE IF ~isDraft /\ missing # <<>>
        THEN /\ calls' = Append(calls,
                  [Alerted(call, "Please complete required fields:")
                     EXCEPT !.pc = "returned", !.missing = missing])
             /\ lastAlert' = "Please complete required fields:"
             /\ fields' = [k \in DOMAIN fields |-> MountValue(form, k)]
        ELSE /\ calls' = Append(calls, call)
             /\ UNCHANGED <<lastAlert, fields>>
  /\ UNCHANGED <<form, selected, page, env>>
  /\ UNCHANGED formFrame

SubmitForm1(isDraft) ==
  /\ form = "Form1"
  /\ Len(calls) < MaxCalls
  /\ LET call == NewCall(isDraft)
         nameToSend == ValueOrSelf(fields["namaSales"])
         missing == MissingLabels(RequiredFields1(Snapshot), 1)
     IN IF isDraft /\ ~Truthy(nameToSend)
        THEN /\ calls' = Append(calls,
                  [Alerted(call, "Nama Sales is required to save a draft")
                     EXCEPT !.pc = "returned"])
             /\ lastAlert' = "Nama Sales is required to save a draft"
        ELSE IF ~isDraft /\ missing # <<>>
        THEN /\ calls' = Append(calls,
                  [Alerted(call, "Please complete required fields:")
                     EXCEPT !.pc = "returned", !.missing = missing])
             /\ lastAlert' = "Please complete required fields:"
        ELSE /\ calls' = Append(calls, call)
             /\ UNCHANGED lastAlert
  /\ UNCHANGED <<form, fields, selected, page, env>>
  /\ UNCHANGED formFrame

(* ---------- Form2 submitForm({isDraft}), up to its first await ---------- *)
\* The strict-validation block reads nameToSend, a const declared further
\* down the same block, and `selected`, which Form2 never declares: building
\* requiredFields throws a ReferenceError, which the catch reports and
\* rethrows.
SubmitForm2(isDraft) ==
  /\ form = "Form2"
  /\ Len(calls) < MaxCalls
  /\ LET call == NewCall(isDraft)
     IN IF isDraft /\ ~Truthy(fields["namaSales"])
        THEN /\ calls' = Append(calls,
                  [Alerted(call, "Nama Sales is required to save a draft")
                     EXCEPT !.pc = "returned"])
             /\ lastAlert' = "Nama Sales is required to save a draft"
        ELSE IF ~isDraft
        THEN /\ calls' = Append(calls,
                  [Alerted(call, "Failed to submit form. Please try again.")
                     EXCEPT !.pc = "rejected"])
             /\ lastAlert' = "Failed to submit form. Please try again."
        ELSE /\ calls' = Append(calls, call)
             /\ UNCHANGED lastAlert
  /\ UNCHANGED <<form, fields, selected, page, env>>
  /\ UNCHANGED formFrame

(* --------------- Form3 handleSubmit(), up to its first await ------------ *)
\* Form3 has no draft mode and no validation: the handler goes straight to
\* AsyncStorage.getItem.
HandleSubmit3 ==
  /\ form = "Form3"
  /\ Len(calls) < MaxCalls
  /\ calls' = Append(calls, NewCall(FALSE))
  /\ UNCHANGED <<form, fields, selected, page, env, lastAlert>>
  /\ UNCHANGED formFrame

(* --------- Form4 handleSubmit({isDraft}), up to its first await --------- *)
HandleSubmit4(isDraft) ==
  /\ form = "Form4"
  /\ Len(calls) < MaxCalls
  /\ LET call == NewCall(isDraft)
     IN IF ApiUrlUnusable(env.API_URL)
        THEN /\ calls' = Append(calls,
                  [Alerted(call, "Failed to submit form. Please try again.")
                     EXCEPT !.pc = "rejected"])
             /\ lastAlert' = "Failed to submit form. Please try again."
        ELSE /\ calls' = Append(calls, call)
             /\ UNCHANGED lastAlert
  /\ UNCHANGED <<form, fields, selected, page, env>>
  /\ UNCHANGED formFrame

(* ------ after `await AsyncStorage.getItem('user_id')`, up to the POST ---- *)
StorageResolved1(i) ==
  /\ form = "Form1"
  /\ calls[i].pc = "storage"
  /\ calls' = [calls EXCEPT ![i].formData = FormData1(calls[i].snap),
                            ![i].sent = FormData1(calls[i].snap),
                            ![i].pc = "posting"]
  /\ UNCHANGED <<form, fields, selected, page, env, lastTap, lastAlert>>
  /\ UNCHANGED formFrame

StorageResolved2(i) ==
  /\ form = "Form2"
  /\ calls[i].pc = "storage"
  /\ calls' = [calls EXCEPT
                 ![i].formData = FormData2(calls[i].snap, calls[i].isDraft),
                 ![i].sent = FormData2(calls[i].snap, calls[i].isDraft),
                 ![i].pc = "posting"]
  /\ UNCHANGED <<form, fields, selected, page, env, lastTap, lastAlert>>
  /\ UNCHANGED formFrame

StorageResolved3(i) ==
  /\ form = "Form3"
  /\ calls[i].pc = "storage"
  /\ calls' = [calls EXCEPT ![i].formData = FormData3(calls[i].snap),
                            ![i].sent = FormData3(calls[i].snap),
                            ![i].pc = "posting"]
  /\ UNCHANGED <<form, fields, selected, page, env, lastTap, lastAlert>>
  /\ UNCHANGED formFrame

\* `isDraft && kuantitas === '' || kuantitas === null` groups as
\* (isDraft && kuantitas === '') || kuantitas === null.
KuantitasAlertDue(isDraft, kuantitas) ==
  (isDraft /\ kuantitas = "") \/ kuantitas = "null"

StorageResolved4(i) ==
  /\ form = "Form4"
  /\ calls[i].pc = "storage"
  /\ LET c == calls[i]
         due == KuantitasAlertDue(c.isDraft, c.snap.fields["kuantitas"])
         warned == IF due THEN Alerted(c, "Mohon isi kuantitas unit.") ELSE c
         missing == MissingLabels(RequiredFields4(c.snap), 2)
     IN IF ~c.isDraft /\ missing # <<>>
        THEN /\ calls' = [calls EXCEPT
                            ![i] = [Alerted(warned, "Please complete required fields:")
                                      EXCEPT !.pc = "returned", !.missing = missing]]
             /\ lastAlert' = "Please complete required fields:"
        ELSE /\ calls' = [calls EXCEPT
                            ![i] = [warned EXCEPT !.formData = FormData4(c.snap),
                                                  !.sent = FormData4(c.snap),
                                                  !.pc = "posting"]]
             /\ lastAlert' = IF due THEN "Mohon isi kuantitas unit." ELSE lastAlert
  /\ UNCHANGED <<form, fields, selected, page, env, lastTap>>
  /\ UNCHANGED formFrame

(* ----------------- the POST settles: success or failure ------------------ *)
\* Form1 appends `status` to its FormData after the POST has resolved.
SuccessText(f, isDraft) ==
  IF f = "Form1" /\ isDraft THEN "Draft saved successfully!"
  ELSE "Form submitted successfully!"

\* A success that takes the form back to its first page.
PostResolvedFirstPage(i) ==
  /\ calls[i].pc = "posting"
  /\ calls' = [calls EXCEPT
       ![i] = [Alerted(calls[i], SuccessText(form, calls[i].isDraft)) EXCEPT
                 !.pc = "resolved"]]
  /\ lastAlert' = SuccessText(form, calls[i].isDraft)
  /\ page' = 1
  /\ UNCHANGED <<form, fields, selected, env, lastTap>>
  /\ UNCHANGED formFrame

PostResolved(i) ==
  /\ calls[i].pc = "posting"
  /\ calls' = [calls EXCEPT
       ![i] = [Alerted(calls[i], SuccessText(form, calls[i].isDraft)) EXCEPT
                 !.pc = "resolved",
                 !.formData = IF form = "Form1"
                              THEN [@ EXCEPT !.status =
                                      IF calls[i].isDraft THEN "draft" ELSE "submitted"]
                              ELSE @]]
  /\ lastAlert' = SuccessText(form, calls[i].isDraft)
  /\ UNCHANGED <<form, fields, selected, page, env, lastTap>>
  /\ UNCHANGED formFrame

\* Form1, Form2 and Form4 rethrow from their catch; Form3 does not.
PostRejected(i) ==
  /\ calls[i].pc = "posting"
  /\ calls' = [calls EXCEPT
       ![i] = [Alerted(calls[i], "Failed to submit form. Please try again.")
                 EXCEPT !.pc = IF form = "Form3" THEN "caught" ELSE "rejected"]]
  /\ lastAlert' = "Failed to submit form. Please try again."
  /\ UNCHANGED <<form, fields, selected, page, env, lastTap>>
  /\ UNCHANGED formFrame

(* ------------------------------ the inputs ------------------------------- *)
SetField(k, v) ==
  /\ k \in DOMAIN fields
  /\ fields' = [fields EXCEPT ![k] = v]
  /\ UNCHANGED <<form, selected, page, env, calls, lastTap, lastAlert>>
  /\ UNCHANGED formFrame

\* MultiSelectCheckbox: ticking appends the option, unticking removes it.
ToggleOption(o) ==
  /\ form = "Form1"
  /\ selected' = IF \E i \in DOMAIN selected : selected[i] = o
                 THEN SelectSeq(selected, LAMBDA x : x # o)
                 ELSE Append(selected, o)
  /\ UNCHANGED <<form, fields, page, env, calls, lastTap, lastAlert>>
  /\ UNCHANGED formFrame

(* --------------------- Form3, Form4: the paged footer -------------------- *)
LastPage ==
  3

\* An updater that steps without clamping.
NextPageUnclamped(p) ==
  p + 1

\* p => Math.min(3, p + 1)
NextPage(p) ==
  IF p + 1 < LastPage THEN p + 1 ELSE LastPage

\* p => Math.max(1, p - 1)
PrevPage(p) ==
  IF p - 1 > 1 THEN p - 1 ELSE 1

goNext ==
  page' = NextPage(page)

goBack ==
  page' = PrevPage(page)

(* ---------------------- Form4: onSerialBlur(e) -------------------------- *)
\* The props InputBox takes from its caller and hands to its TextInput:
\* `function InputBox({ title, value, onChangeText, placeholder })`. Any
\* other prop, the onEndEditing of Form4's Serial Number input among them,
\* is dropped.
InputBoxProps ==
  {"title", "value", "onChangeText", "placeholder"}

\* The inputs onSerialBlur prefills.
ProductFields ==
  {"prodName", "productType", "merkProd"}

\* The body of a 2xx reply of GET /api/forms/products/by-serial/{serial}:
\* exists true with the product, or exists false; or a body that cannot be
\* read.
SerialReplies(serial) ==
  { IF serial = "SN-2"
    THEN [kind |-> "exists", nama_produk |-> "Monitor", tipe_produk |-> "MX450",
          merk_produk |-> "Mindray"]
    ELSE [kind |-> "exists", nama_produk |-> "Ventilator", tipe_produk |-> "V60",
          merk_produk |-> "Philips"],
    [kind |-> "absent", nama_produk |-> "undefined", tipe_produk |-> "undefined",
     merk_produk |-> "undefined"],
    [kind |-> "unreadable", nama_produk |-> "undefined",
     tipe_produk |-> "undefined", merk_produk |-> "undefined"] }

\* onSerialBlur(e), up to the await of fetch: e.nativeEvent.text is the text
\* of the input; without a serial the handler returns.
OnSerialBlur ==
  serialReqs' = IF Truthy(fields["serialNum"])
                THEN Append(serialReqs,
                            [serial |-> fields["serialNum"], state |-> "pending"])
                ELSE serialReqs

\* onSerialBlur after `await fetch`: a 2xx reply goes on to
\* `await res.json()`, a non-2xx reply sets prodExist false, a rejected
\* fetch is logged by the catch.
SerialResponded(i, outcome) ==
  /\ form = "Form4"
  /\ i \in DOMAIN serialReqs
  /\ serialReqs[i].state = "pending"
  /\ serialReqs' = [serialReqs EXCEPT ![i].state =
                      IF outcome = "ok" THEN "json" ELSE outcome]
  /\ prodExist' = IF outcome = "http-error" THEN FALSE ELSE prodExist
  /\ UNCHANGED <<form, fields, selected, page, env, calls, lastTap, lastAlert>>
  /\ UNCHANGED otherScreens

\* onSerialBlur after `await res.json()`.
SerialSettled(i, reply) ==
  /\ form = "Form4"
  /\ i \in DOMAIN serialReqs
  /\ serialReqs[i].state = "json"
  /\ serialReqs' = [serialReqs EXCEPT ![i].state = reply.kind]
  /\ CASE reply.kind = "exists" ->
            /\ fields' = [fields EXCEPT !["prodName"] = reply.nama_produk,
                                        !["productType"] = reply.tipe_produk,
                                        !["merkProd"] = reply.merk_produk]
            /\ prodExist' = TRUE
       [] reply.kind = "absent" ->
            /\ prodExist' = FALSE
            /\ UNCHANGED fields
       [] OTHER -> UNCHANGED <<fields, prodExist>>
  /\ UNCHANGED <<form, selected, page, env, calls, lastTap, lastAlert>>
  /\ UNCHANGED otherScreens

\* The Serial Number input ends editing. Form4 passes the InputBox
\* `onEndEditing={onSerialBlur}`; the handler runs only if InputBox hands
\* that prop on to its TextInput.
EndEditingSerial ==
  /\ form = "Form4"
  /\ page = 1
  /\ lastTap' = "serial"
  /\ IF "onEndEditing" \in InputBoxProps
     THEN OnSerialBlur
     ELSE UNCHANGED serialReqs
  /\ UNCHANGED <<form, fields, selected, page, env, calls, lastAlert, prodExist>>
  /\ UNCHANGED otherScreens

\* A right-hand control that submits whatever the page.
handleRightPressSubmits ==
  /\ Len(calls) < MaxCalls
  /\ calls' = Append(calls, NewCall(FALSE))
  /\ UNCHANGED <<page, lastAlert>>

\* handleRightPress of Form3 and Form4. On page 3 Form4 calls handleSubmit()
\* with no argument: destructuring {isDraft} of undefined rejects the call
\* before its try block, so nothing is alerted.
handleRightPress ==
  IF page < 3
  THEN /\ goNext
       /\ UNCHANGED <<calls, lastAlert>>
  ELSE /\ UNCHANGED page
       /\ IF form = "Form3"
          THEN /\ Len(calls) < MaxCalls
               /\ calls' = Append(calls, NewCall(FALSE))
               /\ UNCHANGED lastAlert
          ELSE /\ Len(calls) < MaxCalls
               /\ calls' = Append(calls, [NewCall(FALSE) EXCEPT !.pc = "rejected"])
               /\ UNCHANGED lastAlert

\* A Next that advances only from a page whose inputs are all filled.
TapNextValidated ==
  /\ form \in {"Form3", "Form4"}
  /\ page # 3
  /\ \A k \in DOMAIN fields : fields[k] \notin {"", "null"}
  /\ handleRightPress
  /\ lastTap' = "next"
  /\ UNCHANGED <<form, fields, selected, env>>
  /\ UNCHANGED formFrame

\* FooterPagination shows Next (onRightPress) on pages 1 and 2 only.
TapNext ==
  /\ form \in {"Form3", "Form4"}
  /\ page # 3
  /\ handleRightPress
  /\ lastTap' = "next"
  /\ UNCHANGED <<form, fields, selected, env>>
  /\ UNCHANGED formFrame

\* Back is disabled on page 1 (leftDisabled).
TapBack ==
  /\ form \in {"Form3", "Form4"}
  /\ page # 1
  /\ goBack
  /\ lastTap' = "back"
  /\ UNCHANGED <<form, fields, selected, env, calls, lastAlert>>
  /\ UNCHANGED formFrame

\* Form4's footer on its last page: Save calls onSave, Submit calls
\* `() => { onSubmit }`, which names the handler without calling it.
\* A Save that waits for the serial lookup to have found the product.
onSave4AfterLookup ==
  page = 3 /\ prodExist = TRUE /\ HandleSubmit4(TRUE)

onSave4 ==
  page = 3 /\ HandleSubmit4(TRUE)

onSubmit4 ==
  /\ form = "Form4"
  /\ page = 3
  /\ UNCHANGED <<form, fields, selected, page, env, calls, lastAlert>>
  /\ UNCHANGED formFrame

\* Save: always in the footer of Form1 and Form2, on the last page of Form3
\* and Form4. Form3 passes FooterPagination no onSave: its Save does nothing.
TapSave ==
  /\ lastTap' = "save"
  /\ \/ SubmitForm1(TRUE)
     \/ SubmitForm2(TRUE)
     \/ /\ form = "Form3"
        /\ page = 3
        /\ UNCHANGED <<form, fields, selected, page, env, calls, lastAlert>>
        /\ UNCHANGED formFrame
     \/ onSave4

\* Submit: Form1 and Form2 call onSubmit, Form3 (last page) handleSubmit.
\* Form4 passes FooterPagination `() => { onSubmit }`, which names the
\* handler without calling it.
TapSubmit ==
  /\ lastTap' = "submit"
  /\ \/ SubmitForm1(FALSE)
     \/ SubmitForm2(FALSE)
     \/ page = 3 /\ HandleSubmit3
     \/ onSubmit4

\* The page an input is rendered on (the one-page forms stay on page 1).
InputPage(f, k) ==
  CASE f = "Form3" /\ k = "notes" -> 3
    [] f = "Form4" /\ k = "namaCust" -> 2
    [] OTHER -> 1

EditInput ==
  \E k \in EditedFields(form) : \E v \in EditValues(form, k) :
    page = InputPage(form, k) /\ SetField(k, v)

TickOption ==
  \E o \in Options : ToggleOption(o)

StorageDone ==
  \E i \in DOMAIN calls :
    \/ StorageResolved1(i)
    \/ StorageResolved2(i)
    \/ StorageResolved3(i)
    \/ StorageResolved4(i)

PostOk ==
  \E i \in DOMAIN calls : PostResolved(i)

PostFails ==
  \E i \in DOMAIN calls : PostRejected(i)

(* --------------------------- the form screens ---------------------------- *)
\* The lookup state of Form1 / Form2 once the first region of the list has
\* been selected and its request has resolved.
LookupLoaded(f) ==
  LET r == RegionValues[1]
      list == [i \in DOMAIN <<RawHospital(r, "7", "0")>> |->
                 IF f = "Form1" THEN NormalizeHospital1(RawHospital(r, "7", "0"))
                 ELSE NormalizeHospital2(RawHospital(r, "7", "0"))]
  IN /\ region = r
     /\ hospitals = list
     /\ cache = [k \in {ToLowerCase(r)} |-> list]
     /\ reqs = <<[NewRequest(r, ToLowerCase(r)) EXCEPT !.state = "ok", !.result = list]>>
     /\ selLog = <<[reg |-> r, req |-> 1, ignored |-> FALSE]>>
     /\ doneOrder = <<1>>

LookupFresh ==
  /\ region = ""
  /\ hospitals = <<>>
  /\ cache = <<>>
  /\ reqs = <<>>
  /\ selLog = <<>>
  /\ doneOrder = <<>>

\* Input states with at most MaxEmpty inputs still at their mount value, and
\* the state right after mount.
FieldStates(f) ==
  { [k \in FormFields(f) |-> IF k \in E THEN MountValue(f, k) ELSE FilledValue(f, k)] :
      E \in {E \in SUBSET FormFields(f) :
               Cardinality(E) <= MaxEmpty \/ E = FormFields(f)} }

\* The "other" input of the multi-select is free text: next to the filled
\* and the untouched input, one holding only white space.
OtherTexts(flds) ==
  IF "other" \in DOMAIN flds /\ flds["other"] # ""
  THEN {flds, [flds EXCEPT !["other"] = " "]}
  ELSE {flds}

FormInit ==
  /\ form \in {"Form1", "Form2", "Form3", "Form4"}
  /\ \/ LookupFresh
     \/ form = "Form1" /\ LookupLoaded(form)
  /\ error = "null"
  /\ loading = FALSE
  /\ controllerRef = 0
  /\ CardIdle
  /\ fields \in UNION {OtherTexts(flds) : flds \in FieldStates(form)}
  \* searchbarSelect picks lokasi from the list of a selected region
  /\ (form \in {"Form1", "Form2"} /\ region = "") => fields["lokasi"] = ""
  /\ selected = <<>>
  /\ page = 1
  /\ env \in EnvValues
  /\ form # "Form4" => ~ApiUrlUnusable(env.API_URL)
  /\ calls = <<>>
  /\ lastTap = "none"
  /\ prodExist = FALSE
  /\ serialReqs = <<>>
  /\ BackendIdle

FormNext ==
  \/ EditInput
  \/ TickOption
  \/ TapNext
  \/ TapBack
  \/ TapSave
  \/ TapSubmit
  \/ StorageDone
  \/ PostOk
  \/ PostFails
  \/ EndEditingSerial

FormSpec ==
  FormInit /\ [][FormNext]_vars

\* AsyncStorage.getItem and axios.post are promises the runtime settles: a
\* handler waiting on one of them is eventually resumed.
FormFairSpec ==
  FormSpec /\ WF_vars(StorageDone) /\ WF_vars(PostOk \/ PostFails)

(* ========= backend: the create-form controllers and form routes ======== *)
MaxRequests ==
  2

MaxBlank ==
  1

\* The create handlers formController.js exports.
Handlers ==
  {"createSalesVisitCustomer", "createSalesVisitNonFaskes",
   "createTechnicianService", "createTechnicianActivity"}

\* The handlers that insert inside a transaction, after getOrCreateProduct.
Transactional(h) ==
  h \in {"createTechnicianService", "createTechnicianActivity"}

\* The req.body fields a handler tests before it inserts.
RequiredInBody(h) ==
  CASE h = "createTechnicianService" ->
         {"nama_customer", "user_id", "nama_faskes", "serial_number"}
    [] h = "createTechnicianActivity" ->
         {"nama_teknisi", "nama_lokasi", "alamat_lokasi", "serial_number"}
    [] OTHER ->
         {"nama_sales", "region", "nama_lokasi", "alamat_lokasi", "koordinat_lokasi"}

BodyFields(h) ==
  RequiredInBody(h) \cup {"user_id", "status"}

\* The table a handler inserts into.
TableOf(h) ==
  CASE h = "createTechnicianService" -> "technician_services"
    [] h = "createTechnicianActivity" -> "technician_activities"
    [] OTHER -> "sales_visits"

\* TABLE_MAP of the form routes, for one form_type per table and one that is
\* not supported.
FormTypes ==
  {"sales", "tech_activity", "tech_service", "invoice"}

TABLE_MAP(form_type) ==
  CASE form_type = "sales" -> "sales_visits"
    [] form_type = "tech_activity" -> "technician_activities"
    [] form_type = "tech_service" -> "technician_services"
    [] OTHER -> "undefined"

\* The columns PATCH /:form_type/:id never updates.
protectedCols ==
  {"id", "user_id", "form_id", "form_type", "created_at", "updated_at"}

\* The JSON bodies of a PATCH, a key the body lacks read as "undefined": no
\* key, a protected column only, or a new status.
NoUpdates ==
  [status |-> "undefined", user_id |-> "undefined"]

PatchBodies ==
  {NoUpdates,
   [status |-> "undefined", user_id |-> "y"],
   [status |-> "draft", user_id |-> "undefined"],
   [status |-> "submitted", user_id |-> "undefined"]}

\* The user_id query parameter of the form routes: given or missing.
QueryUsers ==
  {"x", "undefined"}

\* Multipart bodies: every field a string, or absent ("undefined"). Up to
\* MaxBlank of the fields are absent or empty; status is one of four values.
Bodies(h) ==
  { [k \in BodyFields(h) |->
       IF k = "status" THEN st ELSE IF k \in B THEN blank ELSE "x"] :
      st \in {"submitted", "draft", "Submitted", "undefined"},
      blank \in {"undefined", ""},
      B \in {B \in SUBSET (BodyFields(h) \ {"status"}) : Cardinality(B) <= MaxBlank} }

\* !value for a req.body value
Falsy(v) ==
  v \in {"undefined", ""}

\* A status read without regard to letter case.
FormStatusAnyCase(body) ==
  IF body.status \in {"submitted", "Submitted"} THEN "submitted" ELSE "draft"

\* req.body.status === 'submitted' ? 'submitted' : 'draft'
FormStatus(body) ==
  IF body.status = "submitted" THEN "submitted" ELSE "draft"

\* The handler from the request to its first await, pool.getConnection(): a
\* submitted form with a required field missing is answered 400 at once.
Receive(h, body) ==
  /\ Len(httpReqs) < MaxRequests
  /\ LET formStatus == FormStatus(body)
         rejected == /\ formStatus = "submitted"
                     /\ \E k \in RequiredInBody(h) : Falsy(body[k])
     IN httpReqs' = Append(httpReqs,
          [handler |-> h, body |-> body, formStatus |-> formStatus,
           code |-> IF rejected THEN 400 ELSE 0,
           pc |-> IF rejected THEN "done" ELSE "getConnection"])
  /\ UNCHANGED <<rows, products>>
  /\ UNCHANGED <<regionVars, cardVars, fields, selected, page, env, calls, lastTap,
                 prodExist, serialReqs>>

\* Object.keys of a PATCH body.
KeysOf(raw) ==
  {k \in DOMAIN raw : raw[k] # "undefined"}

\* The updates a PATCH is left with once the protected columns are filtered
\* out of its body.
Updatable(raw) ==
  [k \in DOMAIN raw |-> IF k \in protectedCols THEN "undefined" ELSE raw[k]]

\* router.patch('/:form_type/:id') and router.delete('/:form_type/:id') from
\* the request to pool.getConnection(): a missing user_id, an unsupported
\* form_type and, for PATCH, a body with no updatable field are answered 400.
ReceiveEdit(method, form_type, id, user_id, raw) ==
  /\ Len(httpReqs) < MaxRequests
  /\ LET rejected == \/ Falsy(user_id)
                     \/ TABLE_MAP(form_type) = "undefined"
                     \/ method = "patch" /\ KeysOf(raw) = {}
                     \/ method = "patch" /\ KeysOf(Updatable(raw)) = {}
     IN httpReqs' = Append(httpReqs,
          [handler |-> method, table |-> TABLE_MAP(form_type), id |-> id,
           user_id |-> user_id,
           updates |-> Updatable(raw),
           code |-> IF rejected THEN 400 ELSE 0,
           pc |-> IF rejected THEN "done" ELSE "getConnection"])
  /\ UNCHANGED <<rows, products>>
  /\ UNCHANGED <<regionVars, cardVars, fields, selected, page, env, calls, lastTap,
                 prodExist, serialReqs>>

backendFrame ==
  <<regionVars, cardVars, fields, selected, page, env, calls, lastTap,
    prodExist, serialReqs>>

\* What the SELECT of getOrCreateProduct can find for a serial: a committed
\* row is found; a row another transaction has inserted and not committed is
\* found or not, as the isolation level of the database has it; a missing
\* serial is bound as NULL, which `serial_number = ?` never matches.
SelectFinds(serial) ==
  IF serial = "undefined" THEN {FALSE}
  ELSE IF \E j \in DOMAIN products :
            products[j].serial = serial /\ products[j].committed
  THEN {TRUE}
  ELSE IF \E j \in DOMAIN products : products[j].serial = serial
  THEN {TRUE, FALSE}
  ELSE {FALSE}

\* The rows of a table that stay when request i's transaction is rolled back.
AfterRollback(table, i) ==
  SelectSeq(table, LAMBDA r : r.req # i \/ r.committed)

\* The rows of a table once request i's transaction is committed.
AfterCommit(table, i) ==
  [j \in DOMAIN table |->
     IF table[j].req = i THEN [table[j] EXCEPT !.committed = TRUE] ELSE table[j]]

\* pool.getConnection() resolved: the technician handlers go on to
\* conn.beginTransaction(), the sales handlers to their INSERT, the form
\* routes to their UPDATE or DELETE.
GotConnection(i) ==
  /\ httpReqs[i].pc = "getConnection"
  /\ httpReqs' = [httpReqs EXCEPT ![i].pc =
                    CASE Transactional(httpReqs[i].handler) -> "beginTransaction"
                      [] httpReqs[i].handler \in Handlers -> "insert"
                      [] OTHER -> "query"]
  /\ UNCHANGED <<rows, products>>
  /\ UNCHANGED backendFrame

\* conn.beginTransaction() resolved: getOrCreateProduct issues its SELECT.
TransactionBegun(i) ==
  /\ httpReqs[i].pc = "beginTransaction"
  /\ httpReqs' = [httpReqs EXCEPT ![i].pc = "select"]
  /\ UNCHANGED <<rows, products>>
  /\ UNCHANGED backendFrame

\* The SELECT of getOrCreateProduct resolved: a product found is returned,
\* otherwise the INSERT INTO products is issued.
ProductSelected(i, found) ==
  /\ httpReqs[i].pc = "select"
  /\ found \in SelectFinds(httpReqs[i].body["serial_number"])
  /\ httpReqs' = [httpReqs EXCEPT ![i].pc =
                    IF found THEN "insert" ELSE "insertProduct"]
  /\ UNCHANGED <<rows, products>>
  /\ UNCHANGED backendFrame

\* INSERT INTO products resolved, inside the transaction.
ProductInserted(i) ==
  /\ httpReqs[i].pc = "insertProduct"
  /\ products' = Append(products, [serial |-> httpReqs[i].body["serial_number"],
                                   req |-> i, committed |-> FALSE])
  /\ httpReqs' = [httpReqs EXCEPT ![i].pc = "insert"]
  /\ UNCHANGED rows
  /\ UNCHANGED backendFrame

\* The INSERT of the form row resolved. The technician handlers go on to
\* conn.commit(); the sales handlers, which open no transaction, answer 200.
\* The row is named by the request that inserted it (its id).
FormInserted(i) ==
  /\ httpReqs[i].pc = "insert"
  /\ LET inTx == Transactional(httpReqs[i].handler) IN
       /\ rows' = Append(rows, [table |-> TableOf(httpReqs[i].handler), req |-> i,
                                user_id |-> httpReqs[i].body["user_id"],
                                status |-> httpReqs[i].formStatus,
                                committed |-> ~inTx])
       /\ httpReqs' = [httpReqs EXCEPT ![i].pc = IF inTx THEN "commit" ELSE "done",
                                       ![i].code = IF inTx THEN 0 ELSE 200]
  /\ UNCHANGED products
  /\ UNCHANGED backendFrame

\* conn.commit() resolved: the rows of the transaction are stored, 200.
Committed(i) ==
  /\ httpReqs[i].pc = "commit"
  /\ rows' = AfterCommit(rows, i)
  /\ products' = AfterCommit(products, i)
  /\ httpReqs' = [httpReqs EXCEPT ![i].pc = "done", ![i].code = 200]
  /\ UNCHANGED backendFrame

\* The rows `WHERE id = ? AND user_id = ?` of an UPDATE or DELETE matches.
Matched(i) ==
  {j \in DOMAIN rows : /\ rows[j].table = httpReqs[i].table
                       /\ rows[j].req = httpReqs[i].id
                       /\ rows[j].user_id = httpReqs[i].user_id}

\* The UPDATE of a PATCH resolved: the matched row takes the updates (of the
\* row's columns the model keeps status), 200; no row matched, 404. The
\* statement waits while the row it names is another transaction's
\* uncommitted insert.
Patched(i) ==
  /\ httpReqs[i].handler = "patch"
  /\ httpReqs[i].pc = "query"
  /\ \A j \in Matched(i) : rows[j].committed
  /\ rows' = [j \in DOMAIN rows |->
                IF j \in Matched(i) /\ "status" \in KeysOf(httpReqs[i].updates)
                THEN [rows[j] EXCEPT !.status = httpReqs[i].updates["status"]]
                ELSE rows[j]]
  /\ httpReqs' = [httpReqs EXCEPT ![i].pc = "done",
                                  ![i].code = IF Matched(i) = {} THEN 404 ELSE 200]
  /\ UNCHANGED products
  /\ UNCHANGED backendFrame

\* The DELETE resolved: the matched row is gone, 200; no row matched, 404.
Deleted(i) ==
  /\ httpReqs[i].handler = "delete"
  /\ httpReqs[i].pc = "query"
  /\ \A j \in Matched(i) : rows[j].committed
  /\ rows' = SelectSeq(rows, LAMBDA r : ~( /\ r.table = httpReqs[i].table
                                          /\ r.req = httpReqs[i].id
                                          /\ r.user_id = httpReqs[i].user_id ))
  /\ httpReqs' = [httpReqs EXCEPT ![i].pc = "done",
                                  ![i].code = IF Matched(i) = {} THEN 404 ELSE 200]
  /\ UNCHANGED products
  /\ UNCHANGED backendFrame

\* The awaited database call rejected. A technician handler with a
\* connection awaits conn.rollback() in its catch; without one, and in the
\* sales handlers and the form routes, the catch answers 500 at once.
QueryFailed(i) ==
  /\ httpReqs[i].pc \in {"getConnection", "beginTransaction", "select",
                         "insertProduct", "insert", "commit", "query"}
  /\ LET rollsBack == /\ Transactional(httpReqs[i].handler)
                      /\ httpReqs[i].pc # "getConnection" IN
       httpReqs' = [httpReqs EXCEPT ![i].pc = IF rollsBack THEN "rollback" ELSE "done",
                                    ![i].code = IF rollsBack THEN 0 ELSE 500]
  /\ UNCHANGED <<rows, products>>
  /\ UNCHANGED backendFrame

\* conn.rollback() settled: resolved, the transaction's rows are gone and the
\* catch answers 500; rejected, the handler's promise rejects and no reply
\* is sent.
RolledBack(i, ok) ==
  /\ httpReqs[i].pc = "rollback"
  /\ IF ok
     THEN /\ rows' = AfterRollback(rows, i)
          /\ products' = AfterRollback(products, i)
          /\ httpReqs' = [httpReqs EXCEPT ![i].pc = "done", ![i].code = 500]
     ELSE /\ httpReqs' = [httpReqs EXCEPT ![i].pc = "done"]
          /\ UNCHANGED <<rows, products>>
  /\ UNCHANGED backendFrame

Request ==
  \E h \in Handlers : \E body \in Bodies(h) : Receive(h, body)

EditRequest ==
  \E method \in {"patch", "delete"} : \E form_type \in FormTypes :
    \E id \in 1..MaxRequests : \E user_id \in QueryUsers : \E raw \in PatchBodies :
      /\ method = "delete" => raw = NoUpdates
      /\ ReceiveEdit(method, form_type, id, user_id, raw)

Connected ==
  \E i \in DOMAIN httpReqs : GotConnection(i)

FormPatched ==
  \E i \in DOMAIN httpReqs : Patched(i)

FormDeleted ==
  \E i \in DOMAIN httpReqs : Deleted(i)

Begun ==
  \E i \in DOMAIN httpReqs : TransactionBegun(i)

Selected ==
  \E i \in DOMAIN httpReqs : \E found \in BOOLEAN : ProductSelected(i, found)

ProductStored ==
  \E i \in DOMAIN httpReqs : ProductInserted(i)

FormStored ==
  \E i \in DOMAIN httpReqs : FormInserted(i)

CommitDone ==
  \E i \in DOMAIN httpReqs : Committed(i)

DbFails ==
  \E i \in DOMAIN httpReqs : QueryFailed(i)

RollbackDone ==
  \E i \in DOMAIN httpReqs : \E ok \in BOOLEAN : RolledBack(i, ok)

BackendInit ==
  /\ Init
  /\ form = "Form1"

BackendNext ==
  \/ Request
  \/ EditRequest
  \/ Connected
  \/ FormPatched
  \/ FormDeleted
  \/ Begun
  \/ Selected
  \/ ProductStored
  \/ FormStored
  \/ CommitDone
  \/ DbFails
  \/ RollbackDone

BackendSpec ==
  BackendInit /\ [][BackendNext]_vars

(* ========================= CardInfo: the claims ======================== *)
\* C8 (upload all-or-nothing): once an upload of the current save has been
\* rejected, no PATCH has been sent for that save and none is pending; and
\* the rejection that ends the save is reported by the 'Upload failed' alert.
C8_UploadAllOrNothing ==
  /\ []((\E k \in DOMAIN uploads : uploads[k].state = "failed") =>
          /\ patch = NoPatch
          /\ savePc = "idle"
          /\ ~saving)
  /\ [][ \A k \in DOMAIN uploads :
           (savePc = "uploading" /\ uploads[k].state # "failed"
              /\ uploads'[k].state = "failed")
           => lastAlert' = "Upload failed" ]_vars

\* C8 witness: two pending images, one upload fulfilled and the other rejected.
C8_Witness ==
  \E k1, k2 \in DOMAIN uploads :
    /\ uploads[k1].state = "ok"
    /\ uploads[k2].state = "failed"

\* C9 (uploads joined before the payload): while uploading, every pending image
\* of the save has its upload started; a PATCH is sent only when every one of
\* them is fulfilled; its body holds no pending image, holds the server's
\* filename under every pending key it carries, and leaves a pending key out
\* only when the server gave no filename or the one already stored.
C9_PayloadAfterAllUploads ==
  /\ savePc = "uploading" => DOMAIN uploads = NewImageKeys(saveObj)
  /\ patch # NoPatch =>
       /\ DOMAIN uploads = NewImageKeys(saveObj)
       /\ AllUploaded(uploads)
       /\ \A k \in DOMAIN patch :
            /\ ~IsNewImage(patch[k])
            /\ k \in DOMAIN uploads => patch[k] = uploads[k].filename
       /\ \A k \in DOMAIN uploads :
            k \notin DOMAIN patch =>
              \/ uploads[k].filename = "undefined"
              \/ NormalizeForDiff(uploads[k].filename) = NormalizeForDiff(data[k])

\* C9 witness: a PATCH was sent for a save with two pending images and carries
\* a server-assigned filename.
C9_Witness ==
  /\ patch # NoPatch
  /\ Cardinality(DOMAIN uploads) = 2
  /\ \E k \in DOMAIN uploads : k \in DOMAIN patch /\ patch[k] = "srv1.jpg"

(* ======================= form screens: the claims ====================== *)
\* The anchor field of a form's draft check: namaSales in Form1 and Form2,
\* kuantitas in Form4.
AnchorEmpty(f, snap) ==
  IF f = "Form4"
  THEN snap.fields["kuantitas"] \in {"", "null"}
  ELSE ~Truthy(snap.fields["namaSales"])

DraftValidationText(f) ==
  IF f = "Form4" THEN "Mohon isi kuantitas unit."
  ELSE "Nama Sales is required to save a draft"

\* C10 (draft minimal validation): in every form that offers save-draft, a
\* save-draft call made while the anchor field is empty (the build's API_URL
\* being usable) reports the draft validation error and sends no POST.
C10_DraftMinimalValidation ==
  \A i \in DOMAIN calls :
    ( /\ calls[i].isDraft
      /\ AnchorEmpty(form, calls[i].snap)
      /\ ~ApiUrlUnusable(calls[i].snap.env.API_URL)
      /\ calls[i].pc # "storage" )
    => /\ calls[i].alerts = <<DraftValidationText(form)>>
       /\ calls[i].sent = NoFormData
       /\ calls[i].pc = "returned"


\* What C11 calls the form's required-field set, as <<value, label>> in
\* order. This is the claim's reading, not the handlers' lists (those are
\* RequiredFields1, RequiredFields4 and the branches of SubmitForm2 and
\* HandleSubmit3): the labels are those of the requiredFields lists of Form1,
\* Form2 and Form4, with the multi-select of Form1 counted as empty when
\* nothing is ticked and nothing typed, and for Form3, whose screen has no
\* list, the fields its endpoint requires of a submitted form.
ClaimedRequired(f, snap) ==
  CASE f = "Form1" ->
         [i \in DOMAIN RequiredFields1(snap) |->
            IF RequiredFields1(snap)[i][2] = "Tujuan Kunjungan"
            THEN <<JoinComma(AllSelected(snap)), "Tujuan Kunjungan">>
            ELSE RequiredFields1(snap)[i]]
    [] f = "Form2" ->
         << <<ValueOrSelf(snap.fields["namaSales"]), "Nama Sales">>,
            <<ValueOrSelf(snap.region), "Region">>,
            <<LabelOrEmpty(snap.fields["lokasi"]), "Lokasi">>,
            <<snap.fields["alamat"], "Alamat">>,
            <<snap.fields["coords"], "Koordinat">>,
            <<snap.fields["tujuan"], "Tujuan Kunjungan">>,
            <<snap.fields["note"], "Note Kunjungan">>,
            <<snap.fields["dokumentasi"], "Dokumentasi Kunjungan">> >>
    [] f = "Form3" ->
         << <<ValueOrSelf(snap.fields["technicianName"]), "Nama Teknisi">>,
            <<ValueOrSelf(snap.fields["hospital"]), "Nama Lokasi">>,
            <<snap.fields["lokasi"], "Alamat Lokasi">>,
            <<snap.fields["serialNumber"], "Serial Number">> >>
    [] OTHER ->
         [i \in DOMAIN RequiredFields4(snap) |->
            <<RequiredFields4(snap)[i][2], RequiredFields4(snap)[i][3]>>]

\* C11 (submit aggregated validation): a final-submit call made while one or
\* more required fields are empty (an empty multi-select included) shows the
\* single message "Please complete required fields:" listing the label of
\* every missing field, and sends no POST.
C11_SubmitAggregatedValidation ==
  \A i \in DOMAIN calls :
    ( /\ ~calls[i].isDraft
      /\ MissingLabels(ClaimedRequired(form, calls[i].snap), 1) # <<>>
      /\ calls[i].pc # "storage" )
    => /\ calls[i].alerts = <<"Please complete required fields:">>
       /\ calls[i].missing = MissingLabels(ClaimedRequired(form, calls[i].snap), 1)
       /\ calls[i].sent = NoFormData

\* The status field of the FormData a call handed to axios.post.
StatusSent(call) ==
  IF "status" \in DOMAIN call.sent THEN call.sent.status ELSE "absent"

\* C12 (status in the payload): every POST issued by save-draft carries
\* status = draft and every POST issued by final submit carries
\* status = submitted, in the FormData as it is when the POST is sent.
C12_StatusInPayload ==
  \A i \in DOMAIN calls :
    calls[i].sent # NoFormData =>
      StatusSent(calls[i]) = IF calls[i].isDraft THEN "draft" ELSE "submitted"

PagedForms ==
  {"Form3", "Form4"}

\* Every input of the form holds a value.
AllFilled(f, flds) ==
  \A k \in FormFields(f) : flds[k] \notin {"", "null", "undefined"}

\* C13 (submit control): on the last page of a paged form, a tap on Submit
\* with every input filled starts exactly one final-submit call, which has
\* not failed, and every final-submit call that is waiting is eventually
\* followed by its POST.
C13_SubmitControlSubmits ==
  /\ [][ ( /\ TapSubmit
           /\ form \in PagedForms
           /\ page = 3
           /\ AllFilled(form, fields)
           /\ Len(calls) < MaxCalls )
         => /\ Len(calls') = Len(calls) + 1
            /\ ~calls'[Len(calls')].isDraft
            /\ calls'[Len(calls')].pc = "storage" ]_vars
  /\ \A i \in 1..MaxCalls :
       ( /\ form \in PagedForms
         /\ i \in DOMAIN calls
         /\ ~calls[i].isDraft
         /\ calls[i].pc = "storage" )
       ~> (i \in DOMAIN calls /\ calls[i].sent # NoFormData)

\* C14 (page bounds): in the paged forms the page index is always in 1..3;
\* the goNext updater maps 3 to 3 and i < 3 to i + 1, the goBack updater maps
\* 1 to 1 and i > 1 to i - 1, and a Next or Back tap moves the page by
\* exactly that.
C14_PageBounds ==
  /\ [](page \in 1..LastPage)
  /\ [](\A p \in 1..LastPage :
          /\ NextPage(p) = IF p = LastPage THEN p ELSE p + 1
          /\ PrevPage(p) = IF p = 1 THEN p ELSE p - 1)
  /\ [][TapNext => page' = IF page = LastPage THEN page ELSE page + 1]_vars
  /\ [][TapBack => page' = IF page = 1 THEN page ELSE page - 1]_vars

\* C14 witness: Form3 or Form4 taken to the last page by Next and one page
\* back by Back.
C14_Witness ==
  /\ form \in PagedForms
  /\ page = 2
  /\ lastTap = "back"

\* A step that starts a final-submit call.
FinalSubmitStarts ==
  /\ Len(calls') = Len(calls) + 1
  /\ ~calls'[Len(calls')].isDraft

\* C15 (final submit only on the last page): in the paged forms a
\* final-submit call starts only while page = 3, and on pages 1 and 2 a tap
\* on the right-hand control advances the page and starts no call.
C15_FinalSubmitOnlyOnLastPage ==
  /\ [][ (form \in PagedForms /\ FinalSubmitStarts) => page = LastPage ]_vars
  /\ [][ (form \in PagedForms /\ TapNext /\ page < LastPage)
         => (page' = page + 1 /\ calls' = calls) ]_vars

\* C15 witness: Form3 on page 3 with a final-submit call started by Submit.
C15_Witness ==
  /\ form = "Form3"
  /\ page = LastPage
  /\ lastTap = "submit"
  /\ \E i \in DOMAIN calls : ~calls[i].isDraft

\* A step that starts a save-draft call.
SaveDraftStarts ==
  /\ Len(calls') = Len(calls) + 1
  /\ calls'[Len(calls')].isDraft

\* C16 (save-draft on every page): on each page 1..3 of a paged form some
\* user action starts a save-draft call.
C16_SaveDraftOnEveryPage ==
  (form \in PagedForms /\ Len(calls) < MaxCalls)
    => ENABLED (FormNext /\ SaveDraftStarts)

\* C17 (goNext is not gated): in a paged form, on every page i < 3 and
\* whatever the inputs hold, the Next tap is enabled and takes the page to
\* i + 1.
C17_GoNextUngated ==
  (form \in PagedForms /\ page < LastPage)
    => ENABLED (TapNext /\ page' = page + 1)

\* C17 witness: the last page reached with every input still at its mount
\* value.
C17_Witness ==
  /\ form \in PagedForms
  /\ page = LastPage
  /\ lastTap = "next"
  /\ \A k \in DOMAIN fields : fields[k] = MountValue(form, k)

\* C18 (page index frame): the page index changes only in a step of a Next or
\* Back tap; input edits, the end of editing of the serial number, save-draft
\* and final submit in all their outcomes leave it as it is.
C18_PageChangesOnlyByNextBack ==
  [][ page' # page => (TapNext \/ TapBack) ]_vars

\* C18 witness: Form4 still on page 3 after a save-draft whose POST resolved
\* and one rejected by the server.
C18_Witness ==
  /\ form = "Form4"
  /\ page = LastPage
  /\ lastTap = "save"
  /\ \E i \in DOMAIN calls : calls[i].pc = "resolved"
  /\ \E i \in DOMAIN calls : calls[i].pc = "rejected"

\* A step in which draft or submit validation rejects a call.
ValidationRejects ==
  \E i \in DOMAIN calls' :
    /\ calls'[i].pc = "returned"
    /\ i \in DOMAIN calls => calls[i].pc # "returned"

\* C19 (rejected attempt leaves the session unchanged): the step in which
\* draft or submit validation rejects an attempt changes no field value, not
\* the ticked purposes, not the page index, and neither the region, its
\* hospital list nor the region cache.
C19_RejectedAttemptChangesNothing ==
  [][ ValidationRejects
      => UNCHANGED <<fields, selected, page, region, hospitals, cache>> ]_vars

\* C19 witness: Form1 with a region loaded and cached, one save-draft and one
\* final submit both rejected by validation.
C19_Witness ==
  /\ form = "Form1"
  /\ cache # <<>>
  /\ \E i \in DOMAIN calls : calls[i].isDraft /\ calls[i].pc = "returned"
  /\ \E i \in DOMAIN calls : ~calls[i].isDraft /\ calls[i].pc = "returned"

\* The entry the "other" text contributes to the purposes, stated on its own:
\* nothing for a blank text, the text without its surrounding blanks and in
\* lower case otherwise.
OtherEntry(text) ==
  CASE text \in {"", " "} -> <<>>
    [] text = " Demo " -> <<"demo">>

\* The ticked purposes separated by commas, written out for up to three
\* entries.
CommaJoined(seq) ==
  CASE Len(seq) = 0 -> ""
    [] Len(seq) = 1 -> seq[1]
    [] Len(seq) = 2 -> seq[1] \o "," \o seq[2]
    [] Len(seq) = 3 -> seq[1] \o "," \o seq[2] \o "," \o seq[3]

\* C20 (multi-select-with-other join): every payload Form1 posts carries as
\* tujuan_kunjungan the comma-join of the ticked purposes followed, only if
\* the other-text is non-blank after trimming, by the trimmed lower-cased
\* other-text.
C20_MultiSelectOtherJoin ==
  \A i \in DOMAIN calls :
    (form = "Form1" /\ calls[i].sent # NoFormData)
    => calls[i].sent.tujuan_kunjungan =
         CommaJoined(calls[i].snap.selected
                       \o OtherEntry(calls[i].snap.fields["other"]))

\* C20 witness: two ticked purposes and the other-text " Demo " were posted
\* as "Presentasi,Kunjungan Rutin,demo".
C20_Witness ==
  \E i \in DOMAIN calls :
    /\ form = "Form1"
    /\ calls[i].snap.selected = <<"Presentasi", "Kunjungan Rutin">>
    /\ calls[i].snap.fields["other"] = " Demo "
    /\ calls[i].sent # NoFormData
    /\ calls[i].sent.tujuan_kunjungan = "Presentasi,Kunjungan Rutin,demo"

\* The options of the visit-purpose multi-select in the order the screen
\* declares and renders them.
DeclaredOptions ==
  <<"Presentasi", "Kunjungan Rutin">>

\* The ticked options of seq listed in declared order.
InDeclaredOrder(seq) ==
  SelectSeq(DeclaredOptions, LAMBDA o : \E i \in DOMAIN seq : seq[i] = o)

\* C21 (declared order in the joined value): every payload Form1 posts lists
\* the ticked purposes in the order the options are declared, whatever the
\* order they were ticked in, with the other-entry last.
C21_JoinInDeclaredOrder ==
  \A i \in DOMAIN calls :
    (form = "Form1" /\ calls[i].sent # NoFormData)
    => calls[i].sent.tujuan_kunjungan =
         CommaJoined(InDeclaredOrder(calls[i].snap.selected)
                       \o OtherEntry(calls[i].snap.fields["other"]))

C24_ErrorsRecoveredLocally ==
  \A i \in DOMAIN calls :
    /\ calls[i].pc # "rejected"
    /\ calls[i].pc \in {"returned", "caught"} => calls[i].alerts # <<>>

\* The invocations whose POST has been sent and has not settled.
PostsInFlight ==
  {i \in DOMAIN calls : calls[i].pc = "posting"}

\* C26 (no duplicate submission): at most one submission POST of the form
\* screen is in flight at any time; a press of Save or Submit while a request
\* is pending issues no second request.
C26_AtMostOnePostInFlight ==
  Cardinality(PostsInFlight) <= 1

\* What a found product puts into product input k.
FoundValue(serial, k) ==
  LET reply == CHOOSE r \in SerialReplies(serial) : r.kind = "exists"
  IN CASE k = "prodName" -> reply.nama_produk
       [] k = "productType" -> reply.tipe_produk
       [] k = "merkProd" -> reply.merk_produk

\* C27 (the most recent serial wins): once two lookups for different
\* serials have both found their product, in whichever order they completed,
\* every product input the user has not typed into holds the value of the
\* product of the serial entered last. The screen starts no lookup (InputBox
\* drops onEndEditing), so no state of FormSpec has two lookups.
C27_LatestSerialWins ==
  \A k \in ProductFields :
    ( /\ form = "Form4"
      /\ Len(serialReqs) = 2
      /\ serialReqs[1].serial # serialReqs[2].serial
      /\ serialReqs[1].state = "exists"
      /\ serialReqs[2].state = "exists"
      /\ fields[k] # FilledValue("Form4", k) )
    => fields[k] = FoundValue(serialReqs[2].serial, k)

\* C29 (the saving flag is always reset): the saving flag is set exactly
\* while an invocation of handleSave is waiting for its uploads, its read of
\* user_id or its PATCH;
\* handleSave starts only while the flag is false, so at most one save is in
\* progress; and on every path the flag is eventually false again.
C29_SavingFlagReset ==
  /\ [](form = "CardInfo" => (saving = (savePc # "idle")))
  /\ [][ HandleSave => (~saving /\ savePc = "idle") ]_vars
  /\ (saving ~> ~saving)

\* C29 witness: a save whose PATCH failed has ended with the flag reset.
C29_Witness ==
  /\ form = "CardInfo"
  /\ lastAlert = "Save failed"
  /\ patch # NoPatch
  /\ savePc = "idle"
  /\ ~saving

(* ===================== region lookup: the claims ======================= *)
Last(seq) ==
  seq[Len(seq)]

Pos(seq, x) ==
  CHOOSE k \in DOMAIN seq : seq[k] = x

KeyOf(selectReg) ==
  IF form = "Form1" THEN selectReg ELSE ToLowerCase(selectReg)

NoFetchInFlight ==
  \A i \in DOMAIN reqs : ~InFlight(i)

SelectStep ==
  Len(selLog') = Len(selLog) + 1

\* C1 (stale-result discard): when the last two onSelectRegion calls were for
\* distinct uncached regions A then B, and A's request settled after B's, the
\* visible list is B's result and not A's.
C1_StaleResultDiscard ==
  Len(selLog) >= 2 =>
    LET a == selLog[Len(selLog) - 1]
        b == selLog[Len(selLog)]
    IN  ( /\ a.req # 0
          /\ b.req # 0
          /\ a.reg # b.reg
          /\ ~InFlight(a.req)
          /\ ~InFlight(b.req)
          /\ Pos(doneOrder, b.req) < Pos(doneOrder, a.req)
          /\ reqs[b.req].state = "ok" )
        => /\ hospitals = reqs[b.req].result
           /\ reqs[a.req].state = "ok" => hospitals # reqs[a.req].result

\* C2 (only the current region is applied): with no fetch in flight, a
\* non-empty visible list is the result of a fetch for the selected region.
C2_VisibleListIsCurrentRegion ==
  (NoFetchInFlight /\ hospitals # <<>>) =>
    \E i \in DOMAIN reqs :
      /\ reqs[i].key = KeyOf(region)
      /\ reqs[i].state = "ok"
      /\ reqs[i].result = hospitals

\* C3 (cache idempotence): a second onSelectRegion(r) right after a first one
\* whose fetch is in flight or has resolved issues no further request, and a
\* call for a cached region issues no request and shows the cached list.
C3_CacheIdempotence ==
  [][ SelectStep =>
        LET r == Last(selLog').reg IN
        /\ ( /\ Len(selLog) >= 1
             /\ Last(selLog).reg = r
             /\ Last(selLog).req # 0
             /\ reqs[Last(selLog).req].state \in {"inflight", "ok"} )
           => Len(reqs') = Len(reqs)
        /\ KeyOf(r) \in DOMAIN cache
           => (Len(reqs') = Len(reqs) /\ hospitals' = cache[KeyOf(r)]) ]_vars

\* C4 (single live fetch): at most one request that has not been aborted is
\* in flight.
C4_AtMostOneLiveFetch ==
  Cardinality({i \in DOMAIN reqs : InFlight(i) /\ ~reqs[i].aborted}) <= 1

\* C5 (superseded result dropped): a request that resolves while another
\* region is selected writes neither the cache nor the visible list.
C5_SupersededResultDropped ==
  [][ \A i \in DOMAIN reqs :
        (InFlight(i) /\ reqs'[i].state = "ok" /\ reqs[i].key # KeyOf(region))
        => (cache' = cache /\ hospitals' = hospitals) ]_vars

\* C6 (failure is not cached, reselect retries): a failing request sets the
\* error message and leaves the cache as it was, and selecting the same region
\* again right after the failure issues a new request.
C6_FailureThenRetry ==
  [][ /\ \A i \in DOMAIN reqs :
           (InFlight(i) /\ reqs'[i].state = "error")
           => (error' # "null" /\ cache' = cache)
      /\ ( /\ SelectStep
           /\ Len(selLog) >= 1
           /\ Last(selLog).req # 0
           /\ reqs[Last(selLog).req].state = "error"
           /\ Last(selLog').reg = Last(selLog).reg
           /\ KeyOf(Last(selLog).reg) \notin DOMAIN cache )
         => Len(reqs') = Len(reqs) + 1 ]_vars

\* C7 (cancellation is silent): the continuation of an aborted request leaves
\* the error message and the visible list exactly as they were.
C7_CancellationIsSilent ==
  [][ \A i \in DOMAIN reqs :
        (InFlight(i) /\ reqs'[i].state = "cancelled")
        => (error' = error /\ hospitals' = hospitals) ]_vars

\* C7 witness: an aborted request has run its continuation while an error
\* message or a visible list was there to be disturbed.
C7_Witness ==
  \E i \in DOMAIN reqs :
    /\ reqs[i].state = "cancelled"
    /\ Last(doneOrder) = i
    /\ hospitals # <<>>

\* The raw records of a response whose hospital_id coerces to a number.
Coercible(raw) ==
  {j \in DOMAIN raw : ToNumber(raw[j].hospital_id) # "NaN"}

\* C22 (normalization drop): when a fetch resolves, the stored and the
\* visible list hold exactly the records whose hospital_id coerces to a
\* number: no entry has the id NaN and the length is the number of coercible
\* raw records; the fetch still counts as a success.
C22_NormalizationDrop ==
  [][ \A i \in DOMAIN reqs : \A raw \in RawResponses(reqs[i].selectReg) :
        FetchResolved(i, raw)
        => /\ Mounted => Len(hospitals') = Cardinality(Coercible(raw))
           /\ Len(cache'[reqs[i].key]) = Cardinality(Coercible(raw))
           /\ \A j \in DOMAIN hospitals' : hospitals'[j].hospital_id # "NaN"
           /\ reqs'[i].state = "ok"
           /\ error' = error ]_vars

\* The requests in flight, not aborted, that were issued for the region now
\* selected.
LiveForRegion ==
  {i \in DOMAIN reqs : InFlight(i) /\ ~reqs[i].aborted /\ reqs[i].selectReg = region}

\* C25 (the loading flag follows the live fetch): loading is true exactly
\* while a non-aborted fetch for the selected region is in flight, and the
\* stored controller is that fetch's; the completion of an aborted earlier
\* fetch clears neither.
C25_LoadingFollowsLiveFetch ==
  Mounted =>
    /\ loading = (LiveForRegion # {})
    /\ \A i \in LiveForRegion : controllerRef = i

(* ========================= backend: the claims ========================= *)
\* The rows a request inserted.
RowsOf(i) ==
  {j \in DOMAIN rows : rows[j].req = i}

\* The create requests among the requests received.
Creates ==
  {i \in DOMAIN httpReqs : httpReqs[i].handler \in Handlers}

ResolvedFor(k) ==
  {i \in DOMAIN reqs : /\ reqs[i].state = "ok"
                       /\ KeyOf(reqs[i].selectReg) = k
                       /\ reqs[i].key = k}

\* C30 (the cache only grows and is keyed correctly): the entry under key r
\* is the normalized result of a resolved fetch issued for r; a step changes
\* the cache only when a fetch resolves; no step removes a key, and an entry
\* only ever changes to the result of a fetch for its own region.
C30_CacheGrowsKeyedCorrectly ==
  /\ [](\A k \in DOMAIN cache : \E i \in ResolvedFor(k) : cache[k] = reqs[i].result)
  /\ [][ /\ DOMAIN cache \subseteq DOMAIN cache'
         /\ cache' # cache =>
              \E i \in DOMAIN reqs : /\ InFlight(i)
                                     /\ reqs'[i].state = "ok"
                                     /\ cache'[reqs[i].key] = reqs'[i].result
                                     /\ \A k \in DOMAIN cache :
                                          k # reqs[i].key => cache'[k] = cache[k]
       ]_vars

\* C30 witness: both regions are cached, each with the result of its own
\* fetch, the second entry added while the first was kept.
C30_Witness ==
  /\ Cardinality(DOMAIN cache) = 2
  /\ \A k \in DOMAIN cache : \E i \in ResolvedFor(k) : cache[k] = reqs[i].result
  /\ \E k \in DOMAIN cache : Len(cache[k]) = 2

====
